---- MODULE Spec2Model ----
(***************************************************************************)
(* A model of the PQL-to-SQL compiler (package pql and its parser).        *)
(*                                                                         *)
(* AST nodes are records tagged by a "type" field that carries the Go      *)
(* type name.  SQL text is built as TLA+ strings with \o, exactly as the   *)
(* strings.Builder calls write it.  A Go call that returns (value, error)  *)
(* becomes a record [st, out, msg]: st = "ok" and the written text, or     *)
(* st = "error" with the message, or st = "panic" (a Go panic unwinds the  *)
(* call), or st = "hang" (the call never returns).                         *)
(*                                                                         *)
(* Identifier names and string values of the inputs contain no quote       *)
(* character, so the escaping loops of quoteIdentifier and quoteSQLString  *)
(* copy every byte unchanged.                                              *)
(***************************************************************************)
EXTENDS Integers, Sequences, FiniteSets, TLC

----------------------------------------------------------------------------
(* Spans *)

newSpan(start, end) == [Start |-> start, End |-> end]

indexSpan(i) == [Start |-> i, End |-> i]

nullSpan == [Start |-> -1, End |-> -1]

IsValid(span) == span.Start >= 0 /\ (span.End >= 0 /\ span.Start <= span.End)

----------------------------------------------------------------------------
(* AST node constructors (one per Go struct type) *)

Nil == [type |-> "nil"]

Ident(name, quoted) == [type |-> "Ident", Name |-> name, Quoted |-> quoted]

QualifiedIdent(parts) == [type |-> "QualifiedIdent", Parts |-> parts]

AsQualified(id) == IF id = Nil THEN Nil ELSE QualifiedIdent(<<id>>)

BasicLit(kind, value) == [type |-> "BasicLit", Kind |-> kind, Value |-> value]

UnaryExpr(op, x) == [type |-> "UnaryExpr", Op |-> op, X |-> x]

BinaryExpr(x, op, y) == [type |-> "BinaryExpr", X |-> x, Op |-> op, Y |-> y]

InExpr(x, vals) == [type |-> "InExpr", X |-> x, Vals |-> vals]

ParenExpr(x) == [type |-> "ParenExpr", X |-> x]

IndexExpr(x, index) == [type |-> "IndexExpr", X |-> x, Index |-> index]

CallExpr(func, args) == [type |-> "CallExpr", Func |-> func, Args |-> args]

TableRef(table) == [type |-> "TableRef", Table |-> table]

TabularExpr(source, operators) ==
    [type |-> "TabularExpr", Source |-> source, Operators |-> operators]

CountOperator == [type |-> "CountOperator"]

WhereOperator(predicate) == [type |-> "WhereOperator", Predicate |-> predicate]

SortTerm(x, asc, ascDescSpan, nullsFirst, nullsSpan) ==
    [type |-> "SortTerm", X |-> x, Asc |-> asc, AscDescSpan |-> ascDescSpan,
     NullsFirst |-> nullsFirst, NullsSpan |-> nullsSpan]

SortOperator(terms) == [type |-> "SortOperator", Terms |-> terms]

TakeOperator(rowCount) == [type |-> "TakeOperator", RowCount |-> rowCount]

TopOperator(rowCount, col) ==
    [type |-> "TopOperator", RowCount |-> rowCount, Col |-> col]

ProjectColumn(name, x) == [type |-> "ProjectColumn", Name |-> name, X |-> x]

ProjectOperator(cols) == [type |-> "ProjectOperator", Cols |-> cols]

\* Text is the source text of X, which names the column when Name is nil.
ExtendColumn(name, x, text) ==
    [type |-> "ExtendColumn", Name |-> name, X |-> x, Text |-> text]

ExtendOperator(cols) == [type |-> "ExtendOperator", Cols |-> cols]

SummarizeColumn(name, x, text) ==
    [type |-> "SummarizeColumn", Name |-> name, X |-> x, Text |-> text]

SummarizeOperator(cols, groupBy) ==
    [type |-> "SummarizeOperator", Cols |-> cols, GroupBy |-> groupBy]

JoinOperator(flavor, right, conditions) ==
    [type |-> "JoinOperator", Flavor |-> flavor, Right |-> right,
     Conditions |-> conditions]

AsOperator(name) == [type |-> "AsOperator", Name |-> name]

UnknownTabularOperator(toks) ==
    [type |-> "UnknownTabularOperator", Tokens |-> toks]

----------------------------------------------------------------------------
(* Results of calls that write SQL *)

Ok(s) == [st |-> "ok", out |-> s, msg |-> ""]

Err(m) == [st |-> "error", out |-> "", msg |-> m]

Panic(m) == [st |-> "panic", out |-> "", msg |-> m]

Hang == [st |-> "hang", out |-> "", msg |-> ""]

\* r1 then r2: the first failure ends the call (`if err != nil { return err }`).
Then(r1, r2) ==
    IF r1.st # "ok" THEN r1
    ELSE IF r2.st # "ok" THEN r2
    ELSE Ok(r1.out \o r2.out)

Then3(r1, r2, r3) == Then(Then(r1, r2), r3)

Then4(r1, r2, r3, r4) == Then(Then3(r1, r2, r3), r4)

Then5(r1, r2, r3, r4, r5) == Then(Then4(r1, r2, r3, r4), r5)

----------------------------------------------------------------------------
(* Identifier and literal quoting *)

Q == "\""

quoteIdentifier(name) == Q \o name \o Q

quoteSQLString(s) == "'" \o s \o "'"

leftJoinTableAlias == "$left"

rightJoinTableAlias == "$right"

builtinIdentifiers ==
    [n \in {"true", "false", "null"} |->
        IF n = "true" THEN "TRUE" ELSE IF n = "false" THEN "FALSE" ELSE "NULL"]

binaryOps ==
    [o \in {"and", "or", "+", "-", "*", "/", "%", "<", "<=", ">", ">="} |->
        IF o = "and" THEN "AND" ELSE IF o = "or" THEN "OR" ELSE o]

defaultExprMode == "defaultExprMode"

joinExprMode == "joinExprMode"

exprContext(scope, mode) == [scope |-> scope, mode |-> mode]

NoScope == [n \in {} |-> ""]

----------------------------------------------------------------------------
(* parser.Walk: depth-first traversal with an explicit stack.  The visit    *)
(* function of every caller modelled here returns true for every node, so   *)
(* Walk is modelled by the sequence of nodes it visits.                     *)

RECURSIVE Reverse(_)
Reverse(s) == IF s = <<>> THEN <<>> ELSE Append(Reverse(Tail(s)), Head(s))

\* The node types Walk's type switch has a case for.
WalkTypes ==
    {"Ident", "QualifiedIdent", "TabularExpr", "TableRef", "CountOperator",
     "WhereOperator", "SortOperator", "SortTerm", "TakeOperator", "TopOperator",
     "ProjectOperator", "ProjectColumn", "ExtendOperator", "ExtendColumn",
     "SummarizeOperator", "SummarizeColumn", "JoinOperator", "AsOperator",
     "BinaryExpr", "UnaryExpr", "InExpr", "BasicLit", "CallExpr", "IndexExpr"}

\* A field that holds a pointer to a struct of type t: when the pointer is
\* nil, the Node made of it still has the type t.
pointer(x, t) == IF x = Nil THEN [type |-> "nil", of |-> t] ELSE x

\* The type the switch finds in a node.
dynamicType(n) == IF n.type = "nil" /\ "of" \in DOMAIN n THEN n.of ELSE n.type

\* Whether a node is a nil pointer of some type.
isNilPointer(n) == n.type = "nil" /\ "of" \in DOMAIN n

\* What one case of the switch appends to the stack, in append order.
WalkChildren(n) ==
    CASE n.type = "QualifiedIdent" -> Reverse(n.Parts)
      [] n.type = "TabularExpr" -> Reverse(n.Operators) \o <<n.Source>>
      [] n.type = "TableRef" -> <<pointer(n.Table, "Ident")>>
      [] n.type = "WhereOperator" -> <<n.Predicate>>
      [] n.type = "SortOperator" -> Reverse(n.Terms)
      [] n.type = "SortTerm" -> <<n.X>>
      [] n.type = "TakeOperator" -> <<n.RowCount>>
      [] n.type = "TopOperator" -> <<pointer(n.Col, "SortTerm"), n.RowCount>>
      [] n.type = "ProjectOperator" -> Reverse(n.Cols)
      [] n.type = "ProjectColumn" ->
            (IF n.X # Nil THEN <<n.X>> ELSE <<>>) \o <<pointer(n.Name, "Ident")>>
      [] n.type = "ExtendOperator" -> Reverse(n.Cols)
      [] n.type = "ExtendColumn" ->
            (IF n.X # Nil THEN <<n.X>> ELSE <<>>) \o <<pointer(n.Name, "Ident")>>
      [] n.type = "SummarizeOperator" -> Reverse(n.GroupBy) \o Reverse(n.Cols)
      [] n.type = "SummarizeColumn" ->
            <<n.X>> \o (IF n.Name # Nil THEN <<n.Name>> ELSE <<>>)
      [] n.type = "JoinOperator" ->
            Reverse(n.Conditions) \o <<pointer(n.Right, "TabularExpr")>>
      [] n.type = "AsOperator" -> <<pointer(n.Name, "Ident")>>
      [] n.type = "BinaryExpr" -> <<n.Y, n.X>>
      [] n.type = "UnaryExpr" -> <<n.X>>
      [] n.type = "InExpr" -> Reverse(n.Vals) \o <<n.X>>
      [] n.type = "CallExpr" -> Reverse(n.Args)
      [] n.type = "IndexExpr" -> <<n.Index, n.X>>
      [] OTHER -> <<>>

RECURSIVE WalkLoop(_, _)
\* The loop of Walk, with a visit function that returns true: a type without
\* a case panics, and so does the read of a field through a nil pointer.
WalkLoop(stack, visited) ==
    IF stack = <<>> THEN [visited |-> visited, panic |-> FALSE]
    ELSE LET curr == stack[Len(stack)]
             rest == SubSeq(stack, 1, Len(stack) - 1)
         IN  IF dynamicType(curr) \notin WalkTypes
             THEN [visited |-> visited, panic |-> TRUE]
             ELSE IF isNilPointer(curr) /\ curr.of # "Ident"
             THEN [visited |-> Append(visited, curr), panic |-> TRUE]
             ELSE WalkLoop(rest \o WalkChildren(curr), Append(visited, curr))

Walk(n) == WalkLoop(<<n>>, <<>>)

\* Whether the callback of hasJoinTerms saw an Ident named alias.
sawIdent(visited, alias) ==
    \E j \in 1..Len(visited) : visited[j].type = "Ident" /\ visited[j].Name = alias

\* hasJoinTerms, given what Walk did: (left, right), or the panic of Walk.
hasJoinTermsOf(w) ==
    [left |-> sawIdent(w.visited, leftJoinTableAlias),
     right |-> sawIdent(w.visited, rightJoinTableAlias),
     panic |-> w.panic]

hasJoinTerms(x) == hasJoinTermsOf(Walk(x))

----------------------------------------------------------------------------
(* The expression writer *)

\* needsParens of every entry of the knownFunctions table.
knownFunctions ==
    [f \in {"count", "countif", "iif", "iff", "isnotnull", "isnull", "not",
            "now", "strcat", "tolower", "toupper"} |->
        [needsParens |-> f \in {"iif", "iff", "isnotnull", "isnull", "strcat",
                                "tolower", "toupper"}]]

\* The assignment in the body of the loop that unwraps parentheses:
\* `p, ok := x.(*parser.ParenExpr); ...; x = p`.
UnwrapAssign(p) == p

ArgCountError(what) == Err(what)

RECURSIVE writeExpression(_, _)
RECURSIVE writeExpressionMaybeParen(_, _)
RECURSIVE writeExpressionSwitch(_, _)
RECURSIVE writeParts(_, _, _)
RECURSIVE writeList(_, _, _, _, _)
RECURSIVE writeKnownFunction(_, _)

\* x.Parts[i..] written as "a"."b"; $left and $right only in join mode.
writeParts(ctx, parts, i) ==
    IF i > Len(parts) THEN Ok("")
    ELSE LET part == parts[i]
         IN  IF /\ ~part.Quoted
                /\ part.Name \in {leftJoinTableAlias, rightJoinTableAlias}
                /\ ctx.mode # joinExprMode
             THEN Err(part.Name \o " used in non-join context")
             ELSE Then3(Ok(IF i > 1 THEN "." ELSE ""),
                        Ok(quoteIdentifier(part.Name)),
                        writeParts(ctx, parts, i + 1))

\* xs[i..] written with sep between them; maybeParen selects the callee.
writeList(ctx, xs, i, sep, maybeParen) ==
    IF i > Len(xs) THEN Ok("")
    ELSE Then3(Ok(IF i > 1 THEN sep ELSE ""),
               IF maybeParen THEN writeExpressionMaybeParen(ctx, xs[i])
               ELSE writeExpression(ctx, xs[i]),
               writeList(ctx, xs, i + 1, sep, maybeParen))

\* The write functions of the knownFunctions table.
writeKnownFunction(ctx, x) ==
    LET f == x.Func.Name
        n == Len(x.Args)
    IN  CASE f = "not" ->
               IF n # 1 THEN ArgCountError("not(x) takes a single argument")
               ELSE Then(Ok("NOT "), writeExpressionMaybeParen(ctx, x.Args[1]))
          [] f = "now" ->
               IF n # 0 THEN ArgCountError("now()) takes a no arguments")
               ELSE Ok("CURRENT_TIMESTAMP")
          [] f = "isnull" ->
               IF n # 1 THEN ArgCountError("isnull(x) takes a single argument")
               ELSE Then(writeExpressionMaybeParen(ctx, x.Args[1]), Ok(" IS NULL"))
          [] f = "isnotnull" ->
               IF n # 1 THEN ArgCountError("isnotnull(x) takes a single argument")
               ELSE Then(writeExpressionMaybeParen(ctx, x.Args[1]),
                         Ok(" IS NOT NULL"))
          [] f = "strcat" ->
               IF n = 0 THEN ArgCountError("strcat(x) takes least one argument")
               ELSE writeList(ctx, x.Args, 1, " || ", TRUE)
          [] f = "count" ->
               IF n # 0 THEN ArgCountError("count() takes no arguments")
               ELSE Ok("count()")
          [] f = "countif" ->
               IF n # 1 THEN ArgCountError("countif(x) takes a single argument")
               ELSE Then3(Ok("count() FILTER (WHERE "),
                          writeExpression(ctx, x.Args[1]), Ok(")"))
          [] f \in {"iif", "iff"} ->
               IF n # 3 THEN ArgCountError(f \o "(if, then, else) takes 3 arguments")
               ELSE Then(Then4(Ok("CASE WHEN coalesce("),
                               writeExpression(ctx, x.Args[1]),
                               Ok(", FALSE) THEN "),
                               writeExpression(ctx, x.Args[2])),
                         Then3(Ok(" ELSE "), writeExpression(ctx, x.Args[3]),
                               Ok(" END")))
          [] f = "tolower" ->
               IF n # 1 THEN ArgCountError("tolower(x) takes a single argument")
               ELSE Then3(Ok("LOWER("), writeExpression(ctx, x.Args[1]), Ok(")"))
          [] f = "toupper" ->
               IF n # 1 THEN ArgCountError("toupper(x) takes a single argument")
               ELSE Then3(Ok("UPPER("), writeExpression(ctx, x.Args[1]), Ok(")"))

\* bareJoinEquality asking for $left in one operand and $right in the other.
bareJoinEqualityAcross(xl, xr, yl, yr) == (xl /\ yr) \/ (xr /\ yl)

\* Whether the `==` of a join condition is written without coalesce.
bareJoinEquality(xl, xr, yl, yr) == (xl \/ yl) /\ (xr \/ yr)

\* coalesce(X <op> Y, FALSE), X and Y being the operands as written.
coalesced(X, sqlOp, Y) ==
    Then5(Ok("coalesce("), X, Ok(sqlOp), Y, Ok(", FALSE)"))

\* case TokenEq: jx and jy are what hasJoinTerms returns for x.X and x.Y,
\* X and Y what writeExpressionMaybeParen writes for them.
writeEq(ctx, X, Y, jx, jy) ==
    IF ctx.mode # joinExprMode THEN coalesced(X, " = ", Y)
    ELSE IF jx.panic \/ jy.panic THEN Panic("unknown Node type")
    ELSE IF bareJoinEquality(jx.left, jx.right, jy.left, jy.right)
    THEN Then3(X, Ok(" = "), Y)
    ELSE coalesced(X, " = ", Y)

\* The cases of the BinaryExpr switch that write both operands with
\* writeExpressionMaybeParen: X and Y are what it writes for x.X and x.Y.
writeBinaryExpr(ctx, x, X, Y) ==
    CASE x.Op = "==" -> writeEq(ctx, X, Y, hasJoinTerms(x.X), hasJoinTerms(x.Y))
      [] x.Op = "!=" -> coalesced(X, " <> ", Y)
      [] OTHER ->
           IF x.Op \in DOMAIN binaryOps
           THEN Then3(X, Ok(" " \o binaryOps[x.Op] \o " "), Y)
           ELSE Ok("NULL /* unhandled " \o x.Op \o " binary op */ ")

\* The type switch of writeExpression, entered once the loop has been left.
writeExpressionSwitch(ctx, x) ==
    CASE x.type = "QualifiedIdent" ->
           LET part == x.Parts[1]
               single == Len(x.Parts) = 1 /\ ~part.Quoted
           IN  IF single /\ part.Name \in DOMAIN ctx.scope
               THEN Ok(ctx.scope[part.Name])
               ELSE IF single /\ part.Name \in DOMAIN builtinIdentifiers
               THEN Ok(builtinIdentifiers[part.Name])
               ELSE writeParts(ctx, x.Parts, 1)
      [] x.type = "BasicLit" ->
           IF x.Kind = "TokenNumber" THEN Ok(x.Value)
           ELSE IF x.Kind = "TokenString" THEN Ok(quoteSQLString(x.Value))
           ELSE Ok("NULL /* unhandled " \o x.Kind \o " literal */")
      [] x.type = "UnaryExpr" ->
           Then(Ok(IF x.Op \in {"+", "-"} THEN x.Op
                   ELSE "/* unhandled " \o x.Op \o " unary op */ "),
                writeExpressionMaybeParen(ctx, x.X))
      [] x.type = "BinaryExpr" ->
           CASE x.Op = "=~" ->
                  Then5(Ok("lower("), writeExpression(ctx, x.X),
                        Ok(") = lower("), writeExpression(ctx, x.Y), Ok(")"))
             [] x.Op = "!~" ->
                  Then5(Ok("lower("), writeExpression(ctx, x.X),
                        Ok(") <> lower("), writeExpression(ctx, x.Y), Ok(")"))
             [] OTHER ->
                  writeBinaryExpr(ctx, x, writeExpressionMaybeParen(ctx, x.X),
                                  writeExpressionMaybeParen(ctx, x.Y))
      [] x.type = "InExpr" ->
           Then4(writeExpressionMaybeParen(ctx, x.X), Ok(" IN ("),
                 writeList(ctx, x.Vals, 1, ", ", TRUE), Ok(")"))
      [] x.type = "IndexExpr" ->
           Then4(writeExpressionMaybeParen(ctx, x.X), Ok("["),
                 writeExpression(ctx, x.Index), Ok("]"))
      [] x.type = "CallExpr" ->
           IF x.Func.Name \in DOMAIN knownFunctions
           THEN writeKnownFunction(ctx, x)
           ELSE Then4(Ok(x.Func.Name), Ok("("),
                      writeList(ctx, x.Args, 1, ", ", FALSE), Ok(")"))
      [] OTHER -> Ok("NULL /* unhandled "
                     \o (IF x = Nil THEN "<nil>" ELSE x.type)
                     \o " expression */")

\* The part of writeExpressionMaybeParen after its loop.
writeExpressionMaybeParenSwitch(ctx, x) ==
    IF x.type \in {"QualifiedIdent", "UnaryExpr", "BasicLit"}
    THEN writeExpression(ctx, x)
    ELSE IF /\ x.type = "CallExpr"
            /\ (x.Func.Name \notin DOMAIN knownFunctions
                \/ ~knownFunctions[x.Func.Name].needsParens)
    THEN writeExpression(ctx, x)
    ELSE Then3(Ok("("), writeExpression(ctx, x), Ok(")"))

\* writeExpression: `for { p, ok := x.(*ParenExpr); if !ok { break }; x = p }`
\* and then the switch.  An iteration that leaves x as it was is repeated
\* for ever: the call does not return.
writeExpression(ctx, x) ==
    IF x.type = "ParenExpr"
    THEN IF UnwrapAssign(x) = x THEN Hang
         ELSE writeExpression(ctx, UnwrapAssign(x))
    ELSE writeExpressionSwitch(ctx, x)

writeExpressionMaybeParen(ctx, x) ==
    IF x.type = "ParenExpr"
    THEN IF UnwrapAssign(x) = x THEN Hang
         ELSE writeExpressionMaybeParen(ctx, UnwrapAssign(x))
    ELSE writeExpressionMaybeParenSwitch(ctx, x)

----------------------------------------------------------------------------
(* The lexer.  A query is a sequence of characters, each a string of      *)
(* length one; the queries of the model are ASCII, so a character is one  *)
(* byte and a position counts both.  A token's Value is a string.         *)

Token(kind, value, span) == [Kind |-> kind, Value |-> value, Span |-> span]

Letters ==
    {"a", "b", "c", "d", "e", "f", "g", "h", "i", "j", "k", "l", "m", "n", "o",
     "p", "q", "r", "s", "t", "u", "v", "w", "x", "y", "z",
     "A", "B", "C", "D", "E", "F", "G", "H", "I", "J", "K", "L", "M", "N", "O",
     "P", "Q", "R", "S", "T", "U", "V", "W", "X", "Y", "Z"}

DecimalDigits == <<"0", "1", "2", "3", "4", "5", "6", "7", "8", "9">>

isAlpha(c) == c \in Letters

isDigit(c) == \E d \in 1..10 : DecimalDigits[d] = c

isHexDigit(c) ==
    isDigit(c) \/ c \in {"a", "b", "c", "d", "e", "f", "A", "B", "C", "D", "E", "F"}

\* unicode.IsSpace, for ASCII.
IsSpace(c) == c \in {" ", "\t", "\n", "\r", "\f"}

keywords ==
    [w \in {"and", "by", "in", "or"} |->
        CASE w = "and" -> "TokenAnd" [] w = "by" -> "TokenBy"
          [] w = "in" -> "TokenIn" [] w = "or" -> "TokenOr"]

scanner(s) == [s |-> s, pos |-> 0, last |-> 0]

\* scanner.next: the character read, whether there was one, the scanner after.
scanNext(sc) ==
    IF sc.pos >= Len(sc.s) THEN [c |-> "", ok |-> FALSE, sc |-> sc]
    ELSE [c |-> sc.s[sc.pos + 1], ok |-> TRUE,
          sc |-> [sc EXCEPT !.last = sc.pos, !.pos = sc.pos + 1]]

scanPrev(sc) == [sc EXCEPT !.pos = sc.last]

setPos(sc, pos) == [sc EXCEPT !.pos = pos, !.last = pos]

RECURSIVE text(_, _, _)
\* s[a:b] as a string.
text(s, a, b) == IF a >= b THEN "" ELSE s[a + 1] \o text(s, a + 1, b)

spanString(s, span) ==
    IF ~IsValid(span) THEN "" ELSE text(s, span.Start, span.End)

errorToken(span, msg) == Token("TokenError", msg, span)

\* What a production of the scanner returns: the token and the scanner after.
scanned(tok, sc) == [tok |-> tok, sc |-> sc]

\* A token end one past the scanner's position.
tokenEndPast(sc) == sc.pos + 1

\* newSpan(start, s.pos) of a token without a value.
tokenEnd(sc) == sc.pos

symbol(kind, start, sc) == scanned(Token(kind, "", newSpan(start, tokenEnd(sc))), sc)

RECURSIVE scanIdentLoop(_)
scanIdentLoopOn(n) ==
    IF ~n.ok THEN n.sc
    ELSE IF ~(isAlpha(n.c) \/ isDigit(n.c) \/ n.c = "_") THEN scanPrev(n.sc)
    ELSE scanIdentLoop(n.sc)

scanIdentLoop(sc) == scanIdentLoopOn(scanNext(sc))

identToken(value, span) ==
    IF value \in DOMAIN keywords THEN Token(keywords[value], "", span)
    ELSE Token("TokenIdentifier", value, span)

scanIdentEnd(start, sc) ==
    scanned(identToken(text(sc.s, start, sc.pos), newSpan(start, sc.pos)), sc)

\* scanner.ident
scanIdent(sc) == scanIdentEnd(sc.pos, scanIdentLoop(scanNext(sc).sc))

\* The backquote character, which a TLA+ string cannot hold: written as the
\* circumflex, which the queries of the model do not otherwise use.
Backquote == "^"

RECURSIVE replaceBackticks(_, _, _)
\* strings.ReplaceAll of a doubled backquote by a single one, in s[a:b].
replaceBackticks(s, a, b) ==
    IF a >= b THEN ""
    ELSE IF s[a + 1] = Backquote /\ a + 1 < b /\ s[a + 2] = Backquote
    THEN Backquote \o replaceBackticks(s, a + 2, b)
    ELSE s[a + 1] \o replaceBackticks(s, a + 1, b)

RECURSIVE quotedIdentLoop(_, _)
quotedIdentToken(start, sc) ==
    scanned(Token("TokenQuotedIdentifier",
                  replaceBackticks(sc.s, start + 1, sc.pos - 1),
                  newSpan(start, sc.pos)), sc)

\* quotedIdent after a backtick: n is the character after it.
quotedIdentClose(start, n) ==
    IF n.ok /\ n.c = Backquote THEN quotedIdentLoop(start, n.sc)
    ELSE quotedIdentToken(start, IF n.ok THEN scanPrev(n.sc) ELSE n.sc)

quotedIdentError(start, sc, msg) == scanned(errorToken(newSpan(start, sc.pos), msg), sc)

quotedIdentOn(start, n) ==
    IF ~n.ok
    THEN quotedIdentError(start, n.sc, "parse quoted identifier: unexpected EOF")
    ELSE IF n.c = Backquote THEN quotedIdentClose(start, scanNext(n.sc))
    ELSE IF n.c = "\n"
    THEN quotedIdentError(start, scanPrev(n.sc),
                          "parse quoted identifier: unexpected end of line")
    ELSE quotedIdentLoop(start, n.sc)

quotedIdentLoop(start, sc) == quotedIdentOn(start, scanNext(sc))

quotedIdentFirst(start, n) ==
    IF ~n.ok \/ n.c # Backquote
    THEN quotedIdentError(start, n.sc, "parse quoted identifier: expected backquote")
    ELSE quotedIdentLoop(start, n.sc)

\* scanner.quotedIdent
quotedIdent(sc) == quotedIdentFirst(sc.pos, scanNext(sc))

RECURSIVE TrimLeft(_, _)
\* strings.TrimLeft, on a sequence of characters.
TrimLeft(cs, cutset) ==
    IF cs # <<>> /\ Head(cs) \in cutset THEN TrimLeft(Tail(cs), cutset) ELSE cs

\* The characters of a string, joined.
join(cs) == text(cs, 0, Len(cs))

\* normalizeNumberValue without its cases for the empty string and for a
\* leading point or exponent.
normalizeTrimmedAsIs(t) == t

\* normalizeNumberValue after the TrimLeft: t is what is left.
normalizeTrimmed(t) ==
    IF t = <<>> THEN <<"0">>
    ELSE IF t[1] \in {".", "e", "E"} THEN <<"0">> \o t
    ELSE t

\* The characters of normalizeNumberValue(s), s a sequence of characters.
normalizeNumberChars(cs) == normalizeTrimmed(TrimLeft(cs, {"0"}))

normalizeNumberValue(cs) == join(normalizeNumberChars(cs))

numberToken(start, sc) ==
    scanned(Token("TokenNumber",
                  normalizeNumberValue(SubSeq(sc.s, start + 1, sc.pos)),
                  newSpan(start, sc.pos)), sc)

RECURSIVE exponentDigits(_)
exponentDigitsOn(n) ==
    IF ~n.ok THEN n.sc
    ELSE IF ~isDigit(n.c) THEN scanPrev(n.sc)
    ELSE exponentDigits(n.sc)

exponentDigits(sc) == exponentDigitsOn(scanNext(sc))

\* numberExponent, `found` false: the deferred s.setPos(start).
exponentNotFound(sc) == setPos(sc, sc.pos)

\* numberExponent: n is the character that has to be a digit.
exponentDigit(sc, n) ==
    IF ~n.ok \/ ~isDigit(n.c) THEN exponentNotFound(sc) ELSE exponentDigits(n.sc)

\* numberExponent: n is the character after the e.
exponentSign(sc, n) ==
    IF ~n.ok THEN exponentNotFound(sc)
    ELSE IF n.c \in {"+", "-"} THEN exponentDigit(sc, scanNext(n.sc))
    ELSE exponentDigit(sc, n)

exponentE(sc, n) ==
    IF ~n.ok \/ n.c \notin {"e", "E"} THEN exponentNotFound(sc)
    ELSE exponentSign(sc, scanNext(n.sc))

\* scanner.numberExponent: the scanner after it.
numberExponent(sc) == exponentE(sc, scanNext(sc))

RECURSIVE numberDigits(_, _, _)
\* The loop over the subsequent decimal digits: n is the character read.
numberDigitsOn(start, hasDecimalPoint, n) ==
    IF ~n.ok THEN numberToken(start, n.sc)
    ELSE IF n.c = "." /\ ~hasDecimalPoint THEN numberDigits(start, TRUE, n.sc)
    ELSE IF ~isDigit(n.c) THEN numberToken(start, numberExponent(scanPrev(n.sc)))
    ELSE numberDigits(start, hasDecimalPoint, n.sc)

numberDigits(start, hasDecimalPoint, sc) ==
    numberDigitsOn(start, hasDecimalPoint, scanNext(sc))

HexDigits ==
    <<"0", "1", "2", "3", "4", "5", "6", "7", "8", "9", "a", "b", "c", "d", "e", "f">>

HexUpper == <<"A", "B", "C", "D", "E", "F">>

hexDigitValue(c) ==
    IF \E d \in 1..6 : HexUpper[d] = c
    THEN 9 + (CHOOSE d \in 1..6 : HexUpper[d] = c)
    ELSE (CHOOSE d \in 1..16 : HexDigits[d] = c) - 1

RECURSIVE ParseUint16(_, _)
\* strconv.ParseUint(cs, 16, 64) continued from acc; the hexadecimal literals
\* of the model have fewer than eight digits, so no value is out of range.
ParseUint16(cs, acc) ==
    IF cs = <<>> THEN acc ELSE ParseUint16(Tail(cs), acc * 16 + hexDigitValue(Head(cs)))

RECURSIVE hexDigits(_)
hexDigitsOn(n) ==
    IF ~n.ok THEN n.sc
    ELSE IF ~isHexDigit(n.c) THEN scanPrev(n.sc)
    ELSE hexDigits(n.sc)

hexDigits(sc) == hexDigitsOn(scanNext(sc))

hexToken(start, hexDigitStart, sc) ==
    scanned(Token("TokenNumber",
                  ToString(ParseUint16(SubSeq(sc.s, hexDigitStart + 1, sc.pos), 0)),
                  newSpan(start, sc.pos)), sc)

\* The hexadecimal constant: n is the character after the x.
hexLiteral(start, hexDigitStart, n) ==
    IF ~n.ok \/ ~isHexDigit(n.c)
    THEN scanned(Token("TokenError", "invalid hex literal",
                       newSpan(start, setPos(n.sc, start + 2).pos)),
                 setPos(n.sc, start + 2))
    ELSE hexToken(start, hexDigitStart, hexDigits(n.sc))

\* numberOrDot, `case c == '0'`: n is the character after the zero.
numberZero(start, n) ==
    IF ~n.ok THEN scanned(Token("TokenNumber", "0", newSpan(start, n.sc.pos)), n.sc)
    ELSE IF n.c = "." THEN numberDigits(start, TRUE, n.sc)
    ELSE IF n.c \in {"e", "E"} THEN numberToken(start, numberExponent(scanPrev(n.sc)))
    ELSE IF n.c \in {"x", "X"} THEN hexLiteral(start, n.sc.pos, scanNext(n.sc))
    ELSE IF ~isDigit(n.c) THEN numberDigits(start, FALSE, scanPrev(n.sc))
    ELSE numberDigits(start, FALSE, n.sc)

\* numberOrDot, `case c == '.'`: n is the character after the dot.
numberDot(start, n) ==
    IF ~n.ok THEN symbol("TokenDot", start, n.sc)
    ELSE IF ~isDigit(n.c) THEN symbol("TokenDot", start, scanPrev(n.sc))
    ELSE numberDigits(start, TRUE, n.sc)

numberFirst(start, n) ==
    IF ~n.ok
    THEN scanned(errorToken(indexSpan(start), "parse numeric literal: unexpected EOF"),
                 n.sc)
    ELSE IF n.c = "0" THEN numberZero(start, scanNext(n.sc))
    ELSE IF n.c = "." THEN numberDot(start, scanNext(n.sc))
    ELSE IF ~isDigit(n.c)
    THEN scanned(errorToken(newSpan(start, n.sc.pos),
                            "parse numeric literal: unexpected character"),
                 scanPrev(n.sc))
    ELSE numberDigits(start, FALSE, n.sc)

\* scanner.numberOrDot
numberOrDot(sc) == numberFirst(sc.pos, scanNext(sc))

\* The strings.Builder of scanner.string: nil until an escape is met.
noBuilder == [set |-> FALSE, text |-> ""]

builder(t) == [set |-> TRUE, text |-> t]

unterminated(start, sc) ==
    scanned(errorToken(newSpan(start, sc.pos), "unterminated string"), sc)

RECURSIVE stringLoop(_, _, _, _, _)
\* scanner.string after a backslash: vb is the builder, n the escaped character.
stringEscape(start, valueStart, quoteChar, vb, n) ==
    IF ~n.ok THEN unterminated(start, n.sc)
    ELSE IF n.c = "\n" THEN unterminated(start, scanPrev(n.sc))
    ELSE stringLoop(start, valueStart, quoteChar,
                    builder(vb.text \o (IF n.c = "n" THEN "\n"
                                        ELSE IF n.c = "t" THEN "\t" ELSE n.c)),
                    n.sc)

\* The loop of scanner.string: n is the character read.
stringOn(start, valueStart, quoteChar, vb, n) ==
    IF ~n.ok THEN unterminated(start, n.sc)
    ELSE IF n.c = quoteChar
    THEN scanned(Token("TokenString",
                       IF vb.set THEN vb.text ELSE text(n.sc.s, valueStart, n.sc.last),
                       newSpan(start, n.sc.pos)), n.sc)
    ELSE IF n.c = "\n" THEN unterminated(start, scanPrev(n.sc))
    ELSE IF n.c = "\\"
    THEN stringEscape(start, valueStart, quoteChar,
                      IF vb.set THEN vb
                      ELSE builder(text(n.sc.s, valueStart, n.sc.last)),
                      scanNext(n.sc))
    ELSE stringLoop(start, valueStart, quoteChar,
                    IF vb.set THEN builder(vb.text \o n.c) ELSE vb, n.sc)

stringLoop(start, valueStart, quoteChar, vb, sc) ==
    stringOn(start, valueStart, quoteChar, vb, scanNext(sc))

stringFirst(start, n) ==
    IF ~n.ok
    THEN scanned(errorToken(indexSpan(start), "unexpected EOF (expected string)"), n.sc)
    ELSE IF n.c \notin {"'", "\""}
    THEN scanned(errorToken(indexSpan(start), "unexpected character (expected string)"),
                 scanPrev(n.sc))
    ELSE stringLoop(start, n.sc.pos, n.c, noBuilder, n.sc)

\* scanner.string
scanString(sc) == stringFirst(sc.pos, scanNext(sc))

\* The one-character tokens of Scan's switch.
punctuation ==
    [c \in {",", "|", "(", ")", "[", "]", "\\", "+", "-", "*", "%", ";"} |->
        CASE c = "," -> "TokenComma" [] c = "|" -> "TokenPipe"
          [] c = "(" -> "TokenLParen" [] c = ")" -> "TokenRParen"
          [] c = "[" -> "TokenLBracket" [] c = "]" -> "TokenRBracket"
          [] c = "\\" -> "TokenBackslash" [] c = "+" -> "TokenPlus"
          [] c = "-" -> "TokenMinus" [] c = "*" -> "TokenStar"
          [] c = "%" -> "TokenMod" [] c = ";" -> "TokenSemi"]

\* Which case of Scan's switch takes the character c.
scanCase(c) ==
    IF IsSpace(c) THEN "space"
    ELSE IF isAlpha(c) \/ c = "_" \/ c = "$" THEN "ident"
    ELSE IF isDigit(c) \/ c = "." THEN "number"
    ELSE IF c \in {"\"", "'"} THEN "string"
    ELSE IF c = Backquote THEN "quotedIdent"
    ELSE IF c \in DOMAIN punctuation THEN "punct"
    ELSE IF c = "=" THEN "assign"
    ELSE IF c = "!" THEN "bang"
    ELSE IF c = "/" THEN "slash"
    ELSE IF c = "<" THEN "less"
    ELSE IF c = ">" THEN "greater"
    ELSE "unrecognized"

\* What one turn of Scan's loop does: the tokens it appends (none or one) and
\* the scanner after.
turn(toks, sc) == [toks |-> toks, sc |-> sc]

one(r) == turn(<<r.tok>>, r.sc)

\* `case c == '='`: n is the character after it.
scanAssign(start, n) ==
    IF n.ok /\ n.c = "=" THEN one(symbol("TokenEq", start, n.sc))
    ELSE IF n.ok /\ n.c = "~" THEN one(symbol("TokenCaseInsensitiveEq", start, n.sc))
    ELSE one(symbol("TokenAssign", start, IF n.ok THEN scanPrev(n.sc) ELSE n.sc))

\* `case c == '!'`: n is the character after it.  The default case appends
\* the error token without an s.prev().
scanBang(start, n) ==
    IF n.ok /\ n.c = "=" THEN one(symbol("TokenNE", start, n.sc))
    ELSE IF n.ok /\ n.c = "~" THEN one(symbol("TokenCaseInsensitiveNE", start, n.sc))
    ELSE one(scanned(errorToken(newSpan(start, n.sc.pos), "unrecognized token '!'"),
                     n.sc))

RECURSIVE scanComment(_)
\* The comment, consumed to the end of the line.
scanCommentOn(n) == IF ~n.ok \/ n.c = "\n" THEN n.sc ELSE scanComment(n.sc)

scanComment(sc) == scanCommentOn(scanNext(sc))

\* `case c == '/'`: n is the character after it.
scanSlash(start, n) ==
    IF ~n.ok THEN one(symbol("TokenSlash", start, n.sc))
    ELSE IF n.c = "/" THEN turn(<<>>, scanComment(n.sc))
    ELSE one(symbol("TokenSlash", start, scanPrev(n.sc)))

\* `case c == '<'` and `case c == '>'`: n is the character after it.
scanRelation(orEqual, alone, start, n) ==
    IF n.ok /\ n.c = "=" THEN one(symbol(orEqual, start, n.sc))
    ELSE one(symbol(alone, start, IF n.ok THEN scanPrev(n.sc) ELSE n.sc))

scanLess(start, n) == scanRelation("TokenLE", "TokenLT", start, n)

scanGreater(start, n) == scanRelation("TokenGE", "TokenGT", start, n)

scanPunct(start, n) == one(symbol(punctuation[n.c], start, n.sc))

\* The default case.
scanUnrecognized(start, n) ==
    one(scanned(errorToken(newSpan(start, n.sc.pos),
                           "unrecognized character \""
                               \o spanString(n.sc.s, newSpan(start, n.sc.pos)) \o "\""),
                n.sc))

\* The body of Scan's loop, for the character n read at start.
scanTurnOn(case, start, n) ==
    CASE case = "space" -> turn(<<>>, n.sc)
      [] case = "ident" -> one(scanIdent(scanPrev(n.sc)))
      [] case = "number" -> one(numberOrDot(scanPrev(n.sc)))
      [] case = "string" -> one(scanString(scanPrev(n.sc)))
      [] case = "quotedIdent" -> one(quotedIdent(scanPrev(n.sc)))
      [] case = "punct" -> scanPunct(start, n)
      [] case = "assign" -> scanAssign(start, scanNext(n.sc))
      [] case = "bang" -> scanBang(start, scanNext(n.sc))
      [] case = "slash" -> scanSlash(start, scanNext(n.sc))
      [] case = "less" -> scanLess(start, scanNext(n.sc))
      [] case = "greater" -> scanGreater(start, scanNext(n.sc))
      [] OTHER -> scanUnrecognized(start, n)

scanTurn(sc) == scanTurnOn(scanCase(scanNext(sc).c), sc.pos, scanNext(sc))

RECURSIVE scanLoop(_, _)
scanLoopOn(toks, t) == scanLoop(toks \o t.toks, t.sc)

scanLoop(toks, sc) ==
    IF ~scanNext(sc).ok THEN toks ELSE scanLoopOn(toks, scanTurn(sc))

\* Scan
Scan(s) == scanLoop(<<>>, scanner(s))

----------------------------------------------------------------------------
(* The parser's cursor and the productions behind `sort by` and `top`.      *)
(* A parser is [tokens, pos, srcLen]; pos counts from 0 as in the source.   *)
(* A production returns [node, err, p]: the node, the error (Nil for none)  *)
(* and the parser it leaves.  The operator regions modelled here hold only  *)
(* identifiers, numbers, `.`, `,` and `by`, so of expr only the path of a   *)
(* literal or a dotted identifier with no call, index or binary trail runs. *)

parseError(notFound, m) == [type |-> "parseError", notFound |-> notFound, msg |-> m]

isNotFound(err) == err # Nil /\ err.notFound

makeErrorOpaque(err) == IF err = Nil THEN Nil ELSE [err EXCEPT !.notFound = FALSE]

next(p) ==
    IF p.pos >= Len(p.tokens)
    THEN [tok |-> Token("TokenError", "EOF", indexSpan(p.srcLen)), ok |-> FALSE,
          p |-> [p EXCEPT !.pos = Len(p.tokens) + 1]]
    ELSE [tok |-> p.tokens[p.pos + 1], ok |-> TRUE,
          p |-> [p EXCEPT !.pos = p.pos + 1]]

prev(p) ==
    IF p.pos > 0 /\ p.pos <= Len(p.tokens) THEN [p EXCEPT !.pos = p.pos - 1] ELSE p

\* ident: n is the result of p.next()
identOf(n) ==
    IF n.tok.Kind \notin {"TokenIdentifier", "TokenQuotedIdentifier"}
    THEN [node |-> Nil, err |-> parseError(TRUE, "expected identifier"),
          p |-> prev(n.p)]
    ELSE [node |-> Ident(n.tok.Value, n.tok.Kind = "TokenQuotedIdentifier"),
          err |-> Nil, p |-> n.p]

ident(p) == identOf(next(p))

RECURSIVE qualifiedIdentTrail(_, _)

\* the loop of qualifiedIdent: sel is what p.ident() returned after a dot
qualifiedIdentSel(qid, sel) ==
    IF sel.err # Nil
    THEN [node |-> qid, err |-> makeErrorOpaque(sel.err), p |-> sel.p]
    ELSE qualifiedIdentTrail(QualifiedIdent(Append(qid.Parts, sel.node)), sel.p)

\* the loop of qualifiedIdent: n is the result of p.next()
qualifiedIdentDot(qid, n) ==
    IF n.tok.Kind # "TokenDot"
    THEN [node |-> qid, err |-> Nil, p |-> prev(n.p)]
    ELSE qualifiedIdentSel(qid, ident(n.p))

qualifiedIdentTrail(qid, p) == qualifiedIdentDot(qid, next(p))

\* qualifiedIdent: id is what the first p.ident() returned
qualifiedIdentOf(id) ==
    IF id.err # Nil THEN id ELSE qualifiedIdentTrail(AsQualified(id.node), id.p)

qualifiedIdent(p) == qualifiedIdentOf(ident(p))

endSplit(p) ==
    IF p.pos < Len(p.tokens) THEN parseError(FALSE, "expected '|'") ELSE Nil

\* The first error is kept for its message; errors.As finds a not-found
\* error in either of the two.
joinErrors(e1, e2) ==
    IF e1 = Nil THEN e2
    ELSE IF e2 = Nil THEN e1
    ELSE [e1 EXCEPT !.notFound = e1.notFound \/ e2.notFound]

unionSpans2(u, span) ==
    IF ~IsValid(span) THEN (IF IsValid(u) THEN u ELSE nullSpan)
    ELSE IF IsValid(u)
    THEN newSpan(IF u.Start < span.Start THEN u.Start ELSE span.Start,
                 IF u.End > span.End THEN u.End ELSE span.End)
    ELSE span

RECURSIVE unionSpansFrom(_, _, _)
unionSpansFrom(u, spans, j) ==
    IF j > Len(spans) THEN u ELSE unionSpansFrom(unionSpans2(u, spans[j]), spans, j + 1)

unionSpans(spans) == unionSpansFrom(nullSpan, spans, 1)

\* A production of the parser returns the node, the error and the parser it
\* leaves, as above, and with them what the positions recorded in the node
\* tell: span is the node's Span(), and nodes lists, for the node and for each
\* node under it, its type, its Span() and the range from the start of the
\* first to the end of the last of the tokens read to build it.
parsed(node, err, p, span, lo, nodes) ==
    [node |-> node, err |-> err, p |-> p, span |-> span, lo |-> lo, nodes |-> nodes]

\* No node: the production failed before building one.
noNode(err, p) == parsed(Nil, err, p, nullSpan, -1, <<>>)

\* The end of the last token the parser has read.
readEnd(p) ==
    IF p.pos = 0 \/ p.tokens = <<>> THEN -1
    ELSE p.tokens[IF p.pos > Len(p.tokens) THEN Len(p.tokens) ELSE p.pos].Span.End

built(type, span, lo, p) == [type |-> type, span |-> span, lo |-> lo, hi |-> readEnd(p)]

\* The parser split returns, over the tokens given.
subParser(p, toks) == [tokens |-> toks, pos |-> 0, srcLen |-> p.srcLen]

RECURSIVE popTo(_, _)
\* split: the stack popped to include the first kind that matches.
popTo(stack, kind) ==
    IF stack = <<>> THEN <<>>
    ELSE IF stack[Len(stack)] = kind THEN SubSeq(stack, 1, Len(stack) - 1)
    ELSE popTo(SubSeq(stack, 1, Len(stack) - 1), kind)

\* split, `break loop` after p.prev(): the parser returned and the one left.
splitBreak(start, p) ==
    [sub |-> subParser(p, SubSeq(p.tokens, start + 1, p.pos)), p |-> p]

RECURSIVE splitLoop(_, _, _, _)
\* The loop of split: n is the result of p.next().
splitOn(search, start, stack, n) ==
    IF ~n.ok
    THEN [sub |-> subParser(n.p, SubSeq(n.p.tokens, start + 1, Len(n.p.tokens))),
          p |-> n.p]
    ELSE IF n.tok.Kind \in {"TokenLParen", "TokenLBracket"}
    THEN IF search = n.tok.Kind THEN splitBreak(start, prev(n.p))
         ELSE splitLoop(search, start,
                        Append(stack, IF n.tok.Kind = "TokenLParen"
                                      THEN "TokenRParen" ELSE "TokenRBracket"),
                        n.p)
    ELSE IF n.tok.Kind \in {"TokenRParen", "TokenRBracket"}
    THEN IF Len(stack) > 0 THEN splitLoop(search, start, popTo(stack, n.tok.Kind), n.p)
         ELSE IF search = n.tok.Kind THEN splitBreak(start, prev(n.p))
         ELSE splitLoop(search, start, stack, n.p)
    ELSE IF n.tok.Kind = search /\ Len(stack) = 0 THEN splitBreak(start, prev(n.p))
    ELSE splitLoop(search, start, stack, n.p)

splitLoop(search, start, stack, p) == splitOn(search, start, stack, next(p))

split(p, search) == splitLoop(search, p.pos, <<>>, p)

\* The token at offset j (from 1) after the parser's position.
tokenAt(p, j) == p.tokens[p.pos + j]

\* The Ident nodes of a qualified identifier of k parts read from p on.
identsBuilt(p, k) ==
    [j \in 1..k |->
        [type |-> "Ident", span |-> tokenAt(p, 2 * j - 1).Span,
         lo |-> tokenAt(p, 2 * j - 1).Span.Start, hi |-> tokenAt(p, 2 * j - 1).Span.End]]

\* QualifiedIdent.Span of the k parts read from p on.
qualifiedSpan(p, k) == newSpan(tokenAt(p, 1).Span.Start, tokenAt(p, 2 * k - 1).Span.End)

\* What p.qualifiedIdent() returned as r, with the positions of its node.
qualifiedParsed(p, r) ==
    IF r.node = Nil THEN noNode(r.err, r.p)
    ELSE parsed(r.node, r.err, r.p, qualifiedSpan(p, Len(r.node.Parts)),
                tokenAt(p, 1).Span.Start,
                Append(identsBuilt(p, Len(r.node.Parts)),
                       built("QualifiedIdent", qualifiedSpan(p, Len(r.node.Parts)),
                             tokenAt(p, 1).Span.Start, r.p)))

\* The Op of a BinaryExpr or UnaryExpr node is a TokenKind; the nodes of the
\* model hold it spelled as TokenKind.String spells it.
kindString ==
    [k \in {"TokenStar", "TokenSlash", "TokenMod", "TokenPlus", "TokenMinus",
            "TokenEq", "TokenNE", "TokenLT", "TokenLE", "TokenGT", "TokenGE",
            "TokenCaseInsensitiveEq", "TokenCaseInsensitiveNE", "TokenAnd",
            "TokenOr"} |->
        CASE k = "TokenStar" -> "*" [] k = "TokenSlash" -> "/" [] k = "TokenMod" -> "%"
          [] k = "TokenPlus" -> "+" [] k = "TokenMinus" -> "-" [] k = "TokenEq" -> "=="
          [] k = "TokenNE" -> "!=" [] k = "TokenLT" -> "<" [] k = "TokenLE" -> "<="
          [] k = "TokenGT" -> ">" [] k = "TokenGE" -> ">="
          [] k = "TokenCaseInsensitiveEq" -> "=~"
          [] k = "TokenCaseInsensitiveNE" -> "!~" [] k = "TokenAnd" -> "and"
          [] k = "TokenOr" -> "or"]

operatorPrecedenceFlat(op) ==
    IF op \in {"TokenStar", "TokenSlash", "TokenMod", "TokenPlus", "TokenMinus"} THEN 3
    ELSE IF op \in {"TokenEq", "TokenNE", "TokenLT", "TokenLE", "TokenGT", "TokenGE",
                    "TokenCaseInsensitiveEq", "TokenCaseInsensitiveNE", "TokenIn"}
    THEN 2
    ELSE IF op = "TokenAnd" THEN 1
    ELSE IF op = "TokenOr" THEN 0
    ELSE -1

operatorPrecedence(op) ==
    IF op \in {"TokenStar", "TokenSlash", "TokenMod"} THEN 4
    ELSE IF op \in {"TokenPlus", "TokenMinus"} THEN 3
    ELSE IF op \in {"TokenEq", "TokenNE", "TokenLT", "TokenLE", "TokenGT", "TokenGE",
                    "TokenCaseInsensitiveEq", "TokenCaseInsensitiveNE", "TokenIn"}
    THEN 2
    ELSE IF op = "TokenAnd" THEN 1
    ELSE IF op = "TokenOr" THEN 0
    ELSE -1

RECURSIVE expr(_)
RECURSIVE exprList(_)
RECURSIVE unaryExpr(_)
RECURSIVE exprBinaryTrail(_, _, _, _)

\* What exprList returns: the expressions, the error, the parser it leaves,
\* nodeSliceSpan of the expressions and the nodes built.
listed(xs, err, p, span, nodes) ==
    [xs |-> xs, err |-> err, p |-> p, span |-> span, nodes |-> nodes]

\* An exprList result with x appended, if x is not nil.
listAppend(l, x) ==
    IF x.node = Nil THEN l
    ELSE [l EXCEPT !.xs = Append(l.xs, x.node), !.span = unionSpans2(l.span, x.span),
                   !.nodes = l.nodes \o x.nodes]

RECURSIVE exprListLoop(_, _)
\* The loop of exprList after a comma: x is what p.expr() returned.
exprListItem(l, restorePos, x) ==
    IF isNotFound(x.err) THEN [l EXCEPT !.p = [x.p EXCEPT !.pos = restorePos]]
    ELSE IF x.err # Nil
    THEN [listAppend(l, x) EXCEPT !.err = makeErrorOpaque(x.err), !.p = x.p]
    ELSE exprListLoop(listAppend(l, x), x.p)

\* The loop of exprList: n is the result of p.next().
exprListOn(l, restorePos, n) ==
    IF ~n.ok THEN [l EXCEPT !.p = n.p]
    ELSE IF n.tok.Kind # "TokenComma" THEN [l EXCEPT !.p = prev(n.p)]
    ELSE exprListItem(l, restorePos, expr(n.p))

exprListLoop(l, p) == exprListOn(l, p.pos, next(p))

\* exprList: first is what the first p.expr() returned.
exprListFirst(first) ==
    IF first.err # Nil THEN listed(<<>>, first.err, first.p, nullSpan, <<>>)
    ELSE exprListLoop(listed(<<first.node>>, Nil, first.p, first.span, first.nodes),
                      first.p)

exprList(p) == exprListFirst(expr(p))

\* A node built over what was parsed as x, a record of node, span, lo and
\* nodes: the new node's own entry is added to the nodes of its parts.
node(type, n, err, p, span, lo, parts) ==
    parsed(n, err, p, span, lo, Append(parts, built(type, span, lo, p)))

\* innerPrimaryExpr, a call: args is what argParser.exprList() returned and
\* err the error so far, n the result of p.next() after the split.
callClose(tok, lparen, args, err, n) ==
    IF n.tok.Kind = "TokenRParen"
    THEN node("CallExpr", CallExpr(Ident(tok.Value, FALSE), args.xs), err, n.p,
              unionSpans(<<tok.Span, lparen.Span, args.span, n.tok.Span>>),
              tok.Span.Start,
              <<[type |-> "Ident", span |-> tok.Span, lo |-> tok.Span.Start,
                 hi |-> tok.Span.End]>> \o args.nodes)
    ELSE node("CallExpr", CallExpr(Ident(tok.Value, FALSE), args.xs),
              joinErrors(err, parseError(FALSE, "expected ')'")), prev(n.p),
              unionSpans(<<tok.Span, lparen.Span, args.span, nullSpan>>),
              tok.Span.Start,
              <<[type |-> "Ident", span |-> tok.Span, lo |-> tok.Span.Start,
                 hi |-> tok.Span.End]>> \o args.nodes)

\* The parser after the argument list: a comma that follows it is read.
callArgsTrail(args, n) == IF n.tok.Kind # "TokenComma" THEN prev(n.p) ELSE n.p

\* The error of the argument list: not found is no error; endSplit is joined.
callArgsError(args) ==
    IF isNotFound(args.err) THEN endSplit(args.p)
    ELSE IF args.err = Nil THEN endSplit(callArgsTrail(args, next(args.p)))
    ELSE args.err

callArgs(tok, lparen, args, n) == callClose(tok, lparen, args, callArgsError(args), n)

\* innerPrimaryExpr, an identifier tok: n is the result of p.next() after it.
callOn(tok, id, n) ==
    IF n.tok.Kind # "TokenLParen" THEN [id EXCEPT !.p = prev(n.p)]
    ELSE callArgs(tok, n.tok, exprList(split(n.p, "TokenRParen").sub),
                  next(split(n.p, "TokenRParen").p))

\* innerPrimaryExpr, an identifier tok: id is what p.qualifiedIdent() returned.
primaryIdent(tok, id) ==
    IF id.err # Nil THEN id
    ELSE IF Len(id.node.Parts) > 1 THEN id
    ELSE callOn(tok, id, next(id.p))

\* innerPrimaryExpr, a parenthesis tok: x is what exprParser.expr() returned,
\* n the result of p.next() after the split.
parenClose(tok, x, n) ==
    IF n.tok.Kind # "TokenRParen"
    THEN node("ParenExpr", ParenExpr(x.node),
              joinErrors(joinErrors(makeErrorOpaque(x.err), endSplit(x.p)),
                         parseError(FALSE, "expected ')'")),
              n.p, unionSpans(<<tok.Span, x.span, nullSpan>>), tok.Span.Start, x.nodes)
    ELSE node("ParenExpr", ParenExpr(x.node),
              joinErrors(makeErrorOpaque(x.err), endSplit(x.p)),
              n.p, unionSpans(<<tok.Span, x.span, n.tok.Span>>), tok.Span.Start,
              x.nodes)

parenExpr(tok, s) == parenClose(tok, expr(s.sub), next(s.p))

\* innerPrimaryExpr: p is the parser, n the result of p.next().
innerPrimaryOn(p, n) ==
    IF ~n.ok THEN noNode(parseError(TRUE, "expected expression, got EOF"), n.p)
    ELSE IF n.tok.Kind \in {"TokenNumber", "TokenString"}
    THEN node("BasicLit", BasicLit(n.tok.Kind, n.tok.Value), Nil, n.p, n.tok.Span,
              n.tok.Span.Start, <<>>)
    ELSE IF n.tok.Kind = "TokenIdentifier"
    THEN primaryIdent(n.tok, qualifiedParsed(p, qualifiedIdent(prev(n.p))))
    ELSE IF n.tok.Kind = "TokenQuotedIdentifier"
    THEN qualifiedParsed(p, qualifiedIdent(prev(n.p)))
    ELSE IF n.tok.Kind = "TokenLParen" THEN parenExpr(n.tok, split(n.p, "TokenRParen"))
    ELSE noNode(parseError(TRUE, "expected expression"), prev(n.p))

innerPrimaryExpr(p) == innerPrimaryOn(p, next(p))

\* The Rbrack of an IndexExpr whose closing bracket was not read: the field is
\* never assigned, so it holds the zero Span.
zeroSpan == newSpan(0, 0)

\* primaryExpr, an index: index is what indexParser.expr() returned, n the
\* result of p.next() after the split.
indexClose(x, lbrack, index, n) ==
    IF n.tok.Kind = "TokenRBracket"
    THEN node("IndexExpr", IndexExpr(x.node, index.node),
              joinErrors(index.err, endSplit(index.p)), n.p,
              unionSpans(<<x.span, lbrack.Span, index.span, n.tok.Span>>), x.lo,
              x.nodes \o index.nodes)
    ELSE node("IndexExpr", IndexExpr(x.node, index.node),
              joinErrors(joinErrors(index.err, endSplit(index.p)),
                         parseError(FALSE, "expected ']'")),
              n.p, unionSpans(<<x.span, lbrack.Span, index.span, zeroSpan>>), x.lo,
              x.nodes \o index.nodes)

indexExpr(x, lbrack, s) == indexClose(x, lbrack, expr(s.sub), next(s.p))

\* The loop of primaryExpr: n is the result of p.next().  Every path of its
\* body returns.
primaryTrail(x, n) ==
    IF ~n.ok THEN [x EXCEPT !.p = n.p]
    ELSE IF n.tok.Kind = "TokenLBracket"
    THEN indexExpr(x, n.tok, split(n.p, "TokenRBracket"))
    ELSE [x EXCEPT !.p = prev(n.p)]

\* primaryExpr: x is what p.innerPrimaryExpr() returned.
primaryOn(x) == IF x.err # Nil THEN x ELSE primaryTrail(x, next(x.p))

primaryExpr(p) == primaryOn(innerPrimaryExpr(p))

\* unaryExpr, a sign tok: x is what p.primaryExpr() returned.
unaryOf(tok, x) ==
    node("UnaryExpr", UnaryExpr(kindString[tok.Kind], x.node), makeErrorOpaque(x.err), x.p,
         unionSpans(<<tok.Span, x.span>>), tok.Span.Start, x.nodes)

\* unaryExpr: n is the result of p.next().
unaryOn(n) ==
    IF ~n.ok THEN noNode(parseError(TRUE, "expected expression, got EOF"), n.p)
    ELSE IF n.tok.Kind \in {"TokenPlus", "TokenMinus"} THEN unaryOf(n.tok, primaryExpr(n.p))
    ELSE primaryExpr(prev(n.p))

unaryExpr(p) == unaryOn(next(p))

\* exprBinaryTrail, `in`: vals is what valParser.exprList() returned, n the
\* result of p.next() after the split.
inClose(x, finalError, minPrecedence, op1, lparen, vals, n) ==
    IF n.tok.Kind # "TokenRParen"
    THEN node("InExpr", InExpr(x.node, vals.xs),
              joinErrors(joinErrors(finalError,
                                    joinErrors(makeErrorOpaque(vals.err),
                                               endSplit(vals.p))),
                         parseError(FALSE, "expected ')'")),
              n.p, unionSpans(<<x.span, op1.Span, lparen.Span, vals.span, nullSpan>>),
              x.lo, x.nodes \o vals.nodes)
    ELSE exprBinaryTrail(
             node("InExpr", InExpr(x.node, vals.xs), Nil, n.p,
                  unionSpans(<<x.span, op1.Span, lparen.Span, vals.span, n.tok.Span>>),
                  x.lo, x.nodes \o vals.nodes),
             joinErrors(finalError,
                        joinErrors(makeErrorOpaque(vals.err), endSplit(vals.p))),
             minPrecedence, n.p)

\* exprBinaryTrail, `in`: n is the result of p.next() after it.
inOn(x, finalError, minPrecedence, op1, n) ==
    IF n.tok.Kind # "TokenLParen"
    THEN node("InExpr", InExpr(x.node, <<>>),
              joinErrors(finalError, parseError(FALSE, "expected '('")), n.p,
              unionSpans(<<x.span, op1.Span, nullSpan, nullSpan>>), x.lo, x.nodes)
    ELSE inClose(x, finalError, minPrecedence, op1, n.tok,
                 exprList(split(n.p, "TokenRParen").sub),
                 next(split(n.p, "TokenRParen").p))

RECURSIVE resolveHigher(_, _, _)
\* The inner loop of exprBinaryTrail: y is the right operand so far, with
\* the errors met since the operator as its err; n is the result of p.next().
resolveOn(y, precedence1, n) ==
    IF ~n.ok THEN [y EXCEPT !.p = n.p]
    ELSE IF operatorPrecedence(n.tok.Kind) < 0
            \/ operatorPrecedence(n.tok.Kind) <= precedence1
    THEN [y EXCEPT !.p = prev(n.p)]
    ELSE resolveHigher(y, precedence1,
                       exprBinaryTrail(y, Nil, precedence1 + 1, prev(n.p)))

\* The inner loop after p.exprBinaryTrail(y, precedence1+1) returned t.
resolveHigher(y, precedence1, t) ==
    resolveOn([t EXCEPT !.err = joinErrors(y.err, makeErrorOpaque(t.err))],
              precedence1, next(t.p))

\* exprBinaryTrail: the BinaryExpr of x, op1 and the right operand y.
binaryOf(x, finalError, minPrecedence, op1, y) ==
    exprBinaryTrail(
        node("BinaryExpr", BinaryExpr(x.node, kindString[op1.Kind], y.node), Nil, y.p,
             unionSpans(<<x.span, op1.Span, y.span>>), x.lo, x.nodes \o y.nodes),
        joinErrors(finalError, y.err), minPrecedence, y.p)

\* exprBinaryTrail after an operator: y is what p.unaryExpr() returned.
binaryOn(x, finalError, minPrecedence, op1, y) ==
    binaryOf(x, finalError, minPrecedence, op1,
             resolveOn([y EXCEPT !.err = makeErrorOpaque(y.err)],
                       operatorPrecedence(op1.Kind), next(y.p)))

\* The loop of exprBinaryTrail: n is the result of p.next().
trailOn(x, finalError, minPrecedence, n) ==
    IF ~n.ok THEN [x EXCEPT !.err = finalError, !.p = n.p]
    ELSE IF operatorPrecedence(n.tok.Kind) < 0
            \/ operatorPrecedence(n.tok.Kind) < minPrecedence
    THEN [x EXCEPT !.err = finalError, !.p = prev(n.p)]
    ELSE IF n.tok.Kind = "TokenIn"
    THEN inOn(x, finalError, minPrecedence, n.tok, next(n.p))
    ELSE binaryOn(x, finalError, minPrecedence, n.tok, unaryExpr(n.p))

exprBinaryTrail(x, finalError, minPrecedence, p) ==
    trailOn(x, finalError, minPrecedence, next(p))

\* expr: x is what p.unaryExpr() returned.
exprOn(x) ==
    IF isNotFound(x.err) THEN x
    ELSE [exprBinaryTrail(x, Nil, 0, x.p) EXCEPT !.err = joinErrors(x.err, @)]

expr(p) == exprOn(unaryExpr(p))

isWord(tok, value) == tok.Kind = "TokenIdentifier" /\ tok.Value = value

\* newSortTerm with ascending, nulls first as what is recorded.
newSortTermAsc(x) == SortTerm(x, TRUE, nullSpan, TRUE, nullSpan)

\* The term sortTerm starts from: no direction, no nulls placement recorded.
newSortTerm(x) == SortTerm(x, FALSE, nullSpan, FALSE, nullSpan)

\* sortTerm, after `nulls` (token tok): n is the result of the next p.next().
sortTermNullsClause(term, tok, n) ==
    IF isWord(n.tok, "first")
    THEN [node |-> [term EXCEPT !.NullsFirst = TRUE,
                                !.NullsSpan = newSpan(tok.Span.Start, n.tok.Span.End)],
          err |-> Nil, p |-> n.p]
    ELSE IF isWord(n.tok, "last")
    THEN [node |-> [term EXCEPT !.NullsFirst = FALSE,
                                !.NullsSpan = newSpan(tok.Span.Start, n.tok.Span.End)],
          err |-> Nil, p |-> n.p]
    ELSE [node |-> term, err |-> parseError(FALSE, "expected 'first' or 'last'"),
          p |-> prev(n.p)]

\* sortTerm, the nulls first/last part: n is the result of p.next().
sortTermNulls(term, n) ==
    IF ~n.ok THEN [node |-> term, err |-> Nil, p |-> n.p]
    ELSE IF isWord(n.tok, "nulls") THEN sortTermNullsClause(term, n.tok, next(n.p))
    ELSE [node |-> term, err |-> Nil, p |-> prev(n.p)]

\* sortTerm, the asc/desc part: n is the result of p.next().
sortTermDirection(term, n) ==
    IF ~n.ok THEN [node |-> term, err |-> Nil, p |-> n.p]
    ELSE IF isWord(n.tok, "asc")
    THEN sortTermNulls([term EXCEPT !.Asc = TRUE, !.AscDescSpan = n.tok.Span,
                                    !.NullsFirst = TRUE],
                       next(n.p))
    ELSE IF isWord(n.tok, "desc")
    THEN sortTermNulls([term EXCEPT !.Asc = FALSE, !.AscDescSpan = n.tok.Span,
                                    !.NullsFirst = FALSE],
                       next(n.p))
    ELSE IF isWord(n.tok, "nulls")
    THEN sortTermNulls(term, next(prev(n.p)))
    ELSE [node |-> term, err |-> Nil, p |-> prev(n.p)]

\* sortTerm, after p.expr() returned x and the clauses after it were read
\* as r: SortTerm.Span is that of X, AscDescSpan and NullsSpan.
sortTermParsed(x, r) ==
    node("SortTerm", r.node, r.err, r.p,
         unionSpans(<<x.span, r.node.AscDescSpan, r.node.NullsSpan>>), x.lo, x.nodes)

\* sortTerm, after p.expr() returned x.
sortTermOf(x) ==
    IF x.err # Nil THEN noNode(x.err, x.p)
    ELSE sortTermParsed(x, sortTermDirection(newSortTerm(x.node), next(x.p)))

sortTerm(p) == sortTermOf(expr(p))

\* With the operator a production builds go the positions it records: by is
\* the span of its `by`, span the union of the spans of its parts after the
\* keyword, nodes the nodes under it.
positions(by, span, nodes) == [by |-> by, span |-> span, nodes |-> nodes]

operatorParsed(op, err, p, at) ==
    [node |-> op, err |-> err, p |-> p, by |-> at.by, span |-> at.span,
     nodes |-> at.nodes]

\* The positions at, with those of the part t of the operator added.
withPart(at, t) ==
    [at EXCEPT !.span = unionSpans2(at.span, t.span), !.nodes = at.nodes \o t.nodes]

RECURSIVE sortTerms(_, _, _)

\* the loop of sortOperator after a term: n is the result of p.next()
sortTermsComma(op, at, n) ==
    IF n.tok.Kind # "TokenComma" THEN operatorParsed(op, Nil, prev(n.p), at)
    ELSE sortTerms(op, at, n.p)

\* the loop of sortOperator: t is what p.sortTerm() returned
sortTermsAppend(op, at, t) ==
    IF t.err # Nil
    THEN operatorParsed(IF t.node # Nil
                        THEN [op EXCEPT !.Terms = Append(op.Terms, t.node)] ELSE op,
                        makeErrorOpaque(t.err), t.p, withPart(at, t))
    ELSE sortTermsComma([op EXCEPT !.Terms = Append(op.Terms, t.node)],
                        withPart(at, t), next(t.p))

sortTerms(op, at, p) == sortTermsAppend(op, at, sortTerm(p))

\* sortOperator: by is the result of the first p.next()
sortOperatorBy(by) ==
    IF by.tok.Kind # "TokenBy"
    THEN operatorParsed(SortOperator(<<>>), parseError(FALSE, "expected 'by'"), by.p,
                        positions(nullSpan, nullSpan, <<>>))
    ELSE sortTerms(SortOperator(<<>>), positions(by.tok.Span, nullSpan, <<>>), by.p)

sortOperator(p) == sortOperatorBy(next(p))

\* The number literals in the sources of the model, as written.
DecimalLiterals ==
    {<<"0">>, <<"1">>, <<"2">>, <<"3">>, <<"7">>, <<"1", "0">>,
     <<"4", "2", "9", "4", "9", "6", "7", "2", "9", "6">>,
     <<"9", "2", "2", "3", "3", "7", "2", "0", "3", "6", "8", "5", "4", "7", "7",
       "5", "8", "0", "7">>,
     <<"1", ".", "5">>, <<".", "5">>}

\* A TLA+ string cannot be taken apart: the characters of a number's Value
\* are looked up among those literals, as written and as normalized, and
\* the empty text.
NumberValues ==
    (DecimalLiterals \cup {normalizeNumberChars(cs) : cs \in DecimalLiterals})
        \cup {<<>>, <<"0", ".", "5">>}

valueChars(v) == CHOOSE cs \in NumberValues : join(cs) = v

containsAny(cs, chars) == \E j \in DOMAIN cs : cs[j] \in chars

IsFloat(lit) ==
    lit.Kind = "TokenNumber" /\ containsAny(valueChars(lit.Value), {".", "e", "E"})

IsInteger(lit) == lit.Kind = "TokenNumber" /\ ~IsFloat(lit)

\* The BasicLit of a number token, as a part of an operator.
literalPart(tok) ==
    [span |-> tok.Span,
     nodes |-> <<[type |-> "BasicLit", span |-> tok.Span, lo |-> tok.Span.Start,
                  hi |-> tok.Span.End]>>]

\* topOperator: col is what p.sortTerm() returned
topOperatorCol(rowCount, at, col) ==
    operatorParsed(TopOperator(rowCount, col.node), makeErrorOpaque(col.err), col.p,
                   withPart(at, col))

\* topOperator: by is the result of the second p.next()
topOperatorBy(rowCount, at, by) ==
    IF by.tok.Kind # "TokenBy"
    THEN operatorParsed(TopOperator(rowCount, Nil), parseError(FALSE, "expected 'by'"),
                        prev(by.p), at)
    ELSE topOperatorCol(rowCount,
                        [at EXCEPT !.by = by.tok.Span,
                                   !.span = unionSpans2(at.span, by.tok.Span)],
                        sortTerm(by.p))

\* topOperator: n is the result of the first p.next()
topOperatorCount(n) ==
    IF n.tok.Kind # "TokenNumber"
    THEN operatorParsed(TopOperator(Nil, Nil), parseError(FALSE, "expected integer"),
                        prev(n.p), positions(nullSpan, nullSpan, <<>>))
    ELSE IF ~IsInteger(BasicLit(n.tok.Kind, n.tok.Value))
    THEN operatorParsed(TopOperator(BasicLit(n.tok.Kind, n.tok.Value), Nil),
                        parseError(FALSE, "expected integer"), n.p,
                        withPart(positions(nullSpan, nullSpan, <<>>), literalPart(n.tok)))
    ELSE topOperatorBy(BasicLit(n.tok.Kind, n.tok.Value),
                       withPart(positions(nullSpan, nullSpan, <<>>), literalPart(n.tok)),
                       next(n.p))

topOperator(p) == topOperatorCount(next(p))

----------------------------------------------------------------------------
(* BasicLit.Uint64.  A uint64 does not fit the integers of the model       *)
(* checker: a value is held as its decimal digits, without leading zeros.  *)

MaxUint64 ==
    <<"1", "8", "4", "4", "6", "7", "4", "4", "0", "7", "3", "7", "0", "9", "5", "5",
      "1", "6", "1", "5">>

digitValue(c) == (CHOOSE d \in 1..10 : DecimalDigits[d] = c) - 1

RECURSIVE digitsLess(_, _, _)
\* a < b from digit j on, for digit sequences of one length.
digitsLess(a, b, j) ==
    IF j > Len(a) THEN FALSE
    ELSE IF a[j] # b[j] THEN digitValue(a[j]) < digitValue(b[j])
    ELSE digitsLess(a, b, j + 1)

\* a > b, for digit sequences without leading zeros.
exceeds(a, b) == Len(a) > Len(b) \/ (Len(a) = Len(b) /\ digitsLess(b, a, 1))

\* The value of the digits cs, which are not empty.
digitsValue(cs) == IF TrimLeft(cs, {"0"}) = <<>> THEN <<"0">> ELSE TrimLeft(cs, {"0"})

\* strconv.ParseUint(s, 10, 64)
ParseUint(cs) ==
    IF cs = <<>> \/ \E j \in DOMAIN cs : ~isDigit(cs[j])
    THEN [n |-> <<"0">>, err |-> TRUE]
    ELSE IF exceeds(digitsValue(cs), MaxUint64) THEN [n |-> MaxUint64, err |-> TRUE]
    ELSE [n |-> digitsValue(cs), err |-> FALSE]

RECURSIVE integerPart(_)
\* uint64(lit.Float64()) for a literal with a fraction and no exponent, which
\* is what the float literals of the model are: the digits before the point.
integerPart(cs) ==
    IF cs = <<>> \/ Head(cs) = "." THEN <<>> ELSE <<Head(cs)>> \o integerPart(Tail(cs))

Uint64(lit) ==
    IF lit.Kind # "TokenNumber" THEN <<"0">>
    ELSE IF IsFloat(lit) THEN digitsValue(integerPart(valueChars(lit.Value)))
    ELSE IF ParseUint(valueChars(lit.Value)).err THEN <<"0">>
    ELSE ParseUint(valueChars(lit.Value)).n

----------------------------------------------------------------------------
(* The other operators' productions, and tabularExpr over the tokens of a  *)
(* query.  The nodes these build hold the spans the parser records in them *)
(* (Pipe, Keyword, Assign, By, ...) and, as span, their Span().  The Text  *)
(* of a column is what the writer reads from the source at the span of its *)
(* X: the productions leave it empty.                                      *)

noPositions == positions(nullSpan, nullSpan, <<>>)

countOperator(p) == operatorParsed(CountOperator, Nil, p, noPositions)

\* whereOperator: x is what p.expr() returned.
whereOf(x) ==
    operatorParsed(WhereOperator(x.node), makeErrorOpaque(x.err), x.p,
                   withPart(noPositions, x))

whereOperator(p) == whereOf(expr(p))

\* takeOperator: n is the result of p.next().
takeOn(n) ==
    IF n.tok.Kind # "TokenNumber"
    THEN operatorParsed(TakeOperator(Nil), parseError(FALSE, "expected integer"), n.p,
                        noPositions)
    ELSE operatorParsed(TakeOperator(BasicLit(n.tok.Kind, n.tok.Value)),
                        IF ~IsInteger(BasicLit(n.tok.Kind, n.tok.Value))
                        THEN parseError(FALSE, "expected integer") ELSE Nil,
                        n.p, withPart(noPositions, literalPart(n.tok)))

takeOperator(p) == takeOn(next(p))

\* The Ident p.ident() returned as r when called on p, as a part.
identPart(p, r) ==
    [span |-> tokenAt(p, 1).Span,
     nodes |-> <<[type |-> "Ident", span |-> tokenAt(p, 1).Span,
                  lo |-> tokenAt(p, 1).Span.Start, hi |-> tokenAt(p, 1).Span.End]>>]

\* A column of project, extend or summarize: col is the node, name the part
\* of its Name (noPositions if it has none), assign the span of its `=`, x
\* what p.expr() returned for its X (noPositions if it was not called), lo
\* the start of its first token and p the parser once it is built.
column(col, name, assign, x, lo, p) ==
    [node |-> col @@ [Assign |-> assign,
                      span |-> unionSpans(<<name.span, assign, x.span>>)],
     span |-> unionSpans(<<name.span, assign, x.span>>),
     nodes |-> Append(name.nodes \o x.nodes,
                      built(col.type, unionSpans(<<name.span, assign, x.span>>), lo, p))]

\* op with col as the last of its Cols.
withCol(op, col) == [op EXCEPT !.Cols = Append(op.Cols, col.node)]

\* op with col in the place of the last of its Cols.
withLastCol(op, col) == [op EXCEPT !.Cols = Append(SubSeq(@, 1, Len(@) - 1), col.node)]

RECURSIVE projectCols(_, _, _)

\* projectOperator, after an assignment: n is the result of p.next().
projectAfterExpr(op, at, n) ==
    IF ~n.ok THEN operatorParsed(op, Nil, n.p, at)
    ELSE IF n.tok.Kind # "TokenComma"
    THEN operatorParsed(op, parseError(FALSE, "expected ',' or EOF"), n.p, at)
    ELSE projectCols(op, at, n.p)

\* projectOperator, `case TokenAssign`: x is what p.expr() returned.
projectAssign(op, at, p0, name, sep, x) ==
    IF x.err # Nil
    THEN operatorParsed(
             withCol(op, column(ProjectColumn(name.node, x.node), identPart(p0, name),
                                sep.Span, x, tokenAt(p0, 1).Span.Start, x.p)),
             makeErrorOpaque(x.err), x.p,
             withPart(at, column(ProjectColumn(name.node, x.node), identPart(p0, name),
                                 sep.Span, x, tokenAt(p0, 1).Span.Start, x.p)))
    ELSE projectAfterExpr(
             withCol(op, column(ProjectColumn(name.node, x.node), identPart(p0, name),
                                sep.Span, x, tokenAt(p0, 1).Span.Start, x.p)),
             withPart(at, column(ProjectColumn(name.node, x.node), identPart(p0, name),
                                 sep.Span, x, tokenAt(p0, 1).Span.Start, x.p)),
             next(x.p))

\* The column of a name alone.
nameColumn(col, p0, name) ==
    column(col, identPart(p0, name), nullSpan, noPositions,
           tokenAt(p0, 1).Span.Start, name.p)

\* projectOperator, after a column name: n is the result of p.next().
projectSep(op, at, p0, name, n) ==
    IF ~n.ok
    THEN operatorParsed(withCol(op, nameColumn(ProjectColumn(name.node, Nil), p0, name)),
                        Nil, n.p,
                        withPart(at, nameColumn(ProjectColumn(name.node, Nil), p0, name)))
    ELSE IF n.tok.Kind = "TokenComma"
    THEN projectCols(withCol(op, nameColumn(ProjectColumn(name.node, Nil), p0, name)),
                     withPart(at, nameColumn(ProjectColumn(name.node, Nil), p0, name)),
                     n.p)
    ELSE IF n.tok.Kind = "TokenAssign"
    THEN projectAssign(op, at, p0, name, n.tok, expr(n.p))
    ELSE operatorParsed(withCol(op, nameColumn(ProjectColumn(name.node, Nil), p0, name)),
                        Nil, prev(n.p),
                        withPart(at, nameColumn(ProjectColumn(name.node, Nil), p0, name)))

\* The loop of projectOperator: name is what p.ident() returned.
projectName(op, at, p0, name) ==
    IF name.err # Nil THEN operatorParsed(op, makeErrorOpaque(name.err), name.p, at)
    ELSE projectSep(op, at, p0, name, next(name.p))

projectCols(op, at, p) == projectName(op, at, p, ident(p))

projectOperator(p) == projectCols(ProjectOperator(<<>>), noPositions, p)

RECURSIVE extendCols(_, _, _)

\* extendOperator, after an assignment: n is the result of p.next().
extendAfterExpr(op, at, n) ==
    IF ~n.ok THEN operatorParsed(op, Nil, n.p, at)
    ELSE IF n.tok.Kind # "TokenComma"
    THEN operatorParsed(op, parseError(FALSE, "expected '=' followed by expression"),
                        n.p, at)
    ELSE extendCols(op, at, n.p)

\* extendOperator, after `=`: col is the column with what p.expr() returned
\* as x for its X.
extendAssigned(op, at, x, col) ==
    IF x.err # Nil
    THEN operatorParsed(withCol(op, col), makeErrorOpaque(x.err), x.p, withPart(at, col))
    ELSE extendAfterExpr(withCol(op, col), withPart(at, col), next(x.p))

extendAssign(op, at, p0, name, sep, x) ==
    extendAssigned(op, at, x,
                   column(ExtendColumn(name.node, x.node, ""),
                          identPart(p0, name), sep.Span, x, tokenAt(p0, 1).Span.Start,
                          x.p))

\* extendOperator, after a column name: n is the result of p.next().  When
\* the token is not `=` the error returned is makeErrorOpaque(err) of the err
\* that p.ident() returned, which is nil.
extendSep(op, at, p0, name, n) ==
    IF ~n.ok
    THEN operatorParsed(withCol(op, nameColumn(ExtendColumn(name.node, Nil, ""), p0, name)),
                        parseError(FALSE, "expected '=' followed by expression"), n.p,
                        withPart(at, nameColumn(ExtendColumn(name.node, Nil, ""), p0, name)))
    ELSE IF n.tok.Kind # "TokenAssign"
    THEN operatorParsed(withCol(op, nameColumn(ExtendColumn(name.node, Nil, ""), p0, name)),
                        makeErrorOpaque(name.err), n.p,
                        withPart(at, nameColumn(ExtendColumn(name.node, Nil, ""), p0, name)))
    ELSE extendAssign(op, at, p0, name, n.tok, expr(n.p))

\* The loop of extendOperator: name is what p.ident() returned.
extendName(op, at, p0, name) ==
    IF name.err # Nil THEN operatorParsed(op, makeErrorOpaque(name.err), name.p, at)
    ELSE extendSep(op, at, p0, name, next(name.p))

extendCols(op, at, p) == extendName(op, at, p, ident(p))

extendOperator(p) == extendCols(ExtendOperator(<<>>), noPositions, p)

\* summarizeColumn, after its name: x is what p.expr() returned.
summarizeNamed(p0, name, assign, x) ==
    column(SummarizeColumn(name.node, x.node, ""), identPart(p0, name), assign.Span,
           x, tokenAt(p0, 1).Span.Start, x.p)
    @@ [err |-> makeErrorOpaque(x.err), p |-> x.p]

\* summarizeColumn, with no name: x is what p.expr() returned from restorePos.
summarizeUnnamed(p0, x) ==
    column(SummarizeColumn(Nil, x.node, ""), noPositions, nullSpan, x,
           IF x.lo >= 0 THEN x.lo ELSE next(p0).tok.Span.Start, x.p)
    @@ [err |-> x.err, p |-> x.p]

\* summarizeColumn, after p.ident() returned a name: n is the result of p.next().
summarizeAssign(p0, name, n) ==
    IF n.tok.Kind = "TokenAssign" THEN summarizeNamed(p0, name, n.tok, expr(n.p))
    ELSE summarizeUnnamed(p0, expr([n.p EXCEPT !.pos = p0.pos]))

\* summarizeColumn: name is what p.ident() returned.  An error of ident is
\* always one of not finding, so the column goes on to its expression.
summarizeColumnOf(p0, name) ==
    IF name.err = Nil THEN summarizeAssign(p0, name, next(name.p))
    ELSE summarizeUnnamed(p0, expr(name.p))

summarizeColumn(p) == summarizeColumnOf(p, ident(p))

RECURSIVE summarizeCols(_, _, _)
RECURSIVE summarizeGroupBy(_, _, _)

\* op with the column col in its field: "Cols" or "GroupBy".
withSummarizeCol(op, field, col) ==
    IF field = "Cols" THEN [op EXCEPT !.Cols = Append(@, col.node)]
    ELSE [op EXCEPT !.GroupBy = Append(@, col.node)]

\* summarizeOperator, after the first loop: n is the result of p.next().
summarizeBy(op, at, n) ==
    IF ~n.ok
    THEN operatorParsed(op, IF Len(op.Cols) = 0
                            THEN parseError(FALSE, "expected expression or 'by'")
                            ELSE Nil, n.p, at)
    ELSE IF n.tok.Kind # "TokenBy"
    THEN operatorParsed(op, IF Len(op.Cols) = 0
                            THEN parseError(FALSE, "expected expression or 'by'")
                            ELSE Nil, prev(n.p), at)
    ELSE summarizeGroupBy(op, [at EXCEPT !.by = n.tok.Span,
                                         !.span = unionSpans2(at.span, n.tok.Span)],
                          n.p)

\* The first loop of summarizeOperator, after a column: n is the result of
\* p.next().
summarizeColsSep(op, at, n) ==
    IF ~n.ok THEN operatorParsed(op, Nil, n.p, at)
    ELSE IF n.tok.Kind # "TokenComma" THEN summarizeBy(op, at, next(prev(n.p)))
    ELSE summarizeCols(op, at, n.p)

\* The first loop of summarizeOperator: col is what p.summarizeColumn()
\* returned, which is never a nil column.
summarizeColsOn(op, at, col) ==
    IF isNotFound(col.err) THEN summarizeBy(op, at, next(col.p))
    ELSE IF col.err # Nil
    THEN operatorParsed(withSummarizeCol(op, "Cols", col), makeErrorOpaque(col.err),
                        col.p, withPart(at, col))
    ELSE summarizeColsSep(withSummarizeCol(op, "Cols", col), withPart(at, col),
                          next(col.p))

summarizeCols(op, at, p) == summarizeColsOn(op, at, summarizeColumn(p))

\* The second loop of summarizeOperator, after a column: n is the result of
\* p.next().
summarizeGroupBySep(op, at, n) ==
    IF ~n.ok THEN operatorParsed(op, Nil, n.p, at)
    ELSE IF n.tok.Kind # "TokenComma" THEN operatorParsed(op, Nil, prev(n.p), at)
    ELSE summarizeGroupBy(op, at, n.p)

\* The second loop of summarizeOperator: col is what p.summarizeColumn()
\* returned.
summarizeGroupByOn(op, at, col) ==
    IF isNotFound(col.err) THEN operatorParsed(op, makeErrorOpaque(col.err), col.p, at)
    ELSE IF col.err # Nil
    THEN operatorParsed(withSummarizeCol(op, "GroupBy", col), makeErrorOpaque(col.err),
                        col.p, withPart(at, col))
    ELSE summarizeGroupBySep(withSummarizeCol(op, "GroupBy", col), withPart(at, col),
                             next(col.p))

summarizeGroupBy(op, at, p) == summarizeGroupByOn(op, at, summarizeColumn(p))

summarizeOperator(p) == summarizeCols(SummarizeOperator(<<>>, <<>>), noPositions, p)

\* asOperator: name is what p.ident() returned.
asOperatorOf(p0, name) ==
    operatorParsed(AsOperator(name.node), makeErrorOpaque(name.err), name.p,
                   IF name.node = Nil THEN noPositions
                   ELSE withPart(noPositions, identPart(p0, name)))

asOperator(p) == asOperatorOf(p, ident(p))

joinTypes == {"innerunique", "inner", "leftouter"}

RECURSIVE parserTabularExpr(_)

\* The JoinOperator joinOperator starts from.
newJoin ==
    JoinOperator(Nil, Nil, <<>>)
    @@ [Kind |-> nullSpan, KindAssign |-> nullSpan, Lparen |-> nullSpan,
        Rparen |-> nullSpan, On |-> nullSpan]

\* The positions at, with the span of a token the operator records.
withSpan(at, span) == [at EXCEPT !.span = unionSpans2(at.span, span)]

\* joinOperator, after `on`: l is what p.exprList() returned.
joinConditions(op, finalError, at, l) ==
    operatorParsed([op EXCEPT !.Conditions = l.xs],
                   joinErrors(finalError, makeErrorOpaque(l.err)), l.p, withPart(at, l))

\* joinOperator, after `)`: n is the result of p.next().
joinOn(op, finalError, at, n) ==
    IF n.tok.Kind # "TokenIdentifier" \/ n.tok.Value # "on"
    THEN operatorParsed(op, joinErrors(finalError, parseError(FALSE, "expected 'on'")),
                        n.p, at)
    ELSE joinConditions([op EXCEPT !.On = n.tok.Span], finalError,
                        withSpan(at, n.tok.Span), exprList(n.p))

\* joinOperator, after the right-hand side: n is the result of p.next().
joinRparen(op, finalError, at, n) ==
    IF n.tok.Kind # "TokenRParen"
    THEN operatorParsed(op, joinErrors(finalError, parseError(FALSE, "expected ')'")),
                        n.p, at)
    ELSE joinOn([op EXCEPT !.Rparen = n.tok.Span], finalError, withSpan(at, n.tok.Span),
                next(n.p))

\* joinOperator: right is what rightParser.tabularExpr() returned and p the
\* parser that split left.
joinRightParsed(op, finalError, at, p, right) ==
    joinRparen([op EXCEPT !.Right = right.node],
               joinErrors(finalError,
                          joinErrors(makeErrorOpaque(right.err), endSplit(right.p))),
               withPart(at, right), next(p))

\* joinOperator, `Right table`: n is the result of p.next().
joinRight(op, finalError, at, n) ==
    IF n.tok.Kind # "TokenLParen"
    THEN operatorParsed(op, joinErrors(finalError, parseError(FALSE, "expected '('")),
                        n.p, at)
    ELSE joinRightParsed([op EXCEPT !.Lparen = n.tok.Span], finalError,
                         withSpan(at, n.tok.Span), split(n.p, "TokenRParen").p,
                         parserTabularExpr(split(n.p, "TokenRParen").sub))

\* joinOperator, after `kind =`: n is the result of p.next().
joinFlavor(op, at, n) ==
    IF n.tok.Kind # "TokenIdentifier"
    THEN operatorParsed(op, parseError(FALSE, "expected join flavor"), n.p, at)
    ELSE joinRight([op EXCEPT !.Flavor = Ident(n.tok.Value, FALSE)],
                   IF n.tok.Value \notin joinTypes
                   THEN parseError(FALSE, "expected join flavor") ELSE Nil,
                   withPart(at, identPart(prev(n.p), n)), next(n.p))

\* joinOperator, after `kind`: n is the result of p.next().
joinKindAssign(op, at, n) ==
    IF n.tok.Kind # "TokenAssign"
    THEN operatorParsed(op, parseError(FALSE, "expected '='"), n.p, at)
    ELSE joinFlavor([op EXCEPT !.KindAssign = n.tok.Span], withSpan(at, n.tok.Span),
                    next(n.p))

\* joinOperator: n is the result of the first p.next().
joinFirst(n) ==
    IF ~n.ok
    THEN operatorParsed(newJoin, parseError(FALSE, "expected 'kind' or '('"), n.p,
                        noPositions)
    ELSE IF n.tok.Kind = "TokenIdentifier" /\ n.tok.Value = "kind"
    THEN joinKindAssign([newJoin EXCEPT !.Kind = n.tok.Span],
                        withSpan(noPositions, n.tok.Span), next(n.p))
    ELSE joinRight(newJoin, Nil, noPositions, next(prev(n.p)))

joinOperator(p) == joinFirst(next(p))

----------------------------------------------------------------------------
(* tabularExpr over the tokens of a query.  In the parser the productions  *)
(* above take the pipe and the keyword tokens and store their spans in the *)
(* operator; here the loop stores them in the node the production returns. *)

\* The Keyword of an operator: sortOperator extends it over `by`.
keywordSpan(op, keyword, by) ==
    IF op.type = "SortOperator" /\ IsValid(by) THEN newSpan(keyword.Span.Start, by.End)
    ELSE keyword.Span

\* Span of the operator r.node that a production returned as r.
operatorSpan(pipe, keyword, r) ==
    unionSpans(<<pipe.Span, keywordSpan(r.node, keyword, r.by), r.span>>)

\* The operator r.node with the spans recorded in it.
operatorNode(pipe, keyword, r) ==
    (r.node @@ [Pipe |-> pipe.Span, Keyword |-> keywordSpan(r.node, keyword, r.by),
                span |-> operatorSpan(pipe, keyword, r)])
    @@ (IF r.node.type \in {"TopOperator", "SummarizeOperator"} THEN [By |-> r.by]
        ELSE <<>>)

\* The tokens of an UnknownTabularOperator, as a part of it.  Its type is
\* declared outside the files at hand: its Span covers the pipe and the
\* tokens it captures.
tokensPart(toks) ==
    [span |-> unionSpans([j \in DOMAIN toks |-> toks[j].Span]), nodes |-> <<>>]

unknownOperator(pipe, toks) ==
    UnknownTabularOperator(toks)
    @@ [Pipe |-> pipe.Span, span |-> unionSpans2(pipe.Span, tokensPart(toks).span)]

\* The state of the loop of tabularExpr: expr, finalError and the parser,
\* with the Span() of expr, the start of its first token, the nodes built
\* and whether the loop has returned.
tabular(e, err, p, span, lo, nodes, done) ==
    [node |-> e, err |-> err, p |-> p, span |-> span, lo |-> lo, nodes |-> nodes,
     done |-> done]

\* The loop's state t after an operator op with Span span is appended, err
\* joined to finalError and p the parser after the split.
appended(t, op, span, hi, parts, err, p) ==
    tabular([t.node EXCEPT !.Operators = Append(@, op)], joinErrors(t.err, err), p,
            unionSpans2(t.span, span), t.lo,
            (t.nodes \o parts)
                \o <<[type |-> op.type, span |-> span, lo |-> op.Pipe.Start,
                      hi |-> hi]>>,
            FALSE)

\* An iteration of the loop after an operator's production returned r from
\* opParser; endSplit follows.
operatorDone(t, pipe, keyword, p, r) ==
    appended(t, operatorNode(pipe, keyword, r), operatorSpan(pipe, keyword, r),
             readEnd(r.p), r.nodes, joinErrors(r.err, endSplit(r.p)), p)

\* An iteration that appends an UnknownTabularOperator and continues.
operatorUnknown(t, pipe, toks, msg, p) ==
    appended(t, unknownOperator(pipe, toks), unknownOperator(pipe, toks).span,
             unknownOperator(pipe, toks).span.End, <<>>, parseError(FALSE, msg), p)

\* The case the switch of the loop takes on the operator name.
operatorCase(value) ==
    CASE value = "count" -> "count"
      [] value \in {"where", "filter"} -> "where"
      [] value \in {"sort", "order"} -> "sort"
      [] value \in {"take", "limit"} -> "take"
      [] value = "top" -> "top"
      [] value = "project" -> "project"
      [] value = "extend" -> "extend"
      [] value = "summarize" -> "summarize"
      [] value = "join" -> "join"
      [] value = "as" -> "as"
      [] OTHER -> "default"

\* The production the case calls, on the parser past the keyword.
production(case, p) ==
    CASE case = "count" -> countOperator(p)
      [] case = "where" -> whereOperator(p)
      [] case = "sort" -> sortOperator(p)
      [] case = "take" -> takeOperator(p)
      [] case = "top" -> topOperator(p)
      [] case = "project" -> projectOperator(p)
      [] case = "extend" -> extendOperator(p)
      [] case = "summarize" -> summarizeOperator(p)
      [] case = "join" -> joinOperator(p)
      [] case = "as" -> asOperator(p)

\* An iteration, after the split: name is the result of opParser.next() and
\* p the parser the split left.
operatorNamed(t, pipe, p, name) ==
    IF ~name.ok
    THEN operatorUnknown(t, pipe, <<>>, "missing operator name after pipe", p)
    ELSE IF name.tok.Kind # "TokenIdentifier"
    THEN operatorUnknown(t, pipe, name.p.tokens, "expected operator name", p)
    ELSE IF operatorCase(name.tok.Value) = "default"
    THEN operatorUnknown(t, pipe, name.p.tokens, "unknown operator name", p)
    ELSE operatorDone(t, pipe, name.tok, p,
                      production(operatorCase(name.tok.Value), name.p))

\* The loop returns: n, the result of p.next(), is not a pipe.
tabularReturn(t, n) ==
    [t EXCEPT !.p = prev(n.p), !.done = TRUE,
              !.nodes = Append(@, built("TabularExpr", t.span, t.lo, prev(n.p)))]

\* An iteration of the loop: n is the result of p.next().
operatorOn(t, n) ==
    IF n.tok.Kind # "TokenPipe" THEN tabularReturn(t, n)
    ELSE operatorNamed(t, n.tok, split(n.p, "TokenPipe").p,
                       next(split(n.p, "TokenPipe").sub))

operatorTurn(t) == operatorOn(t, next(t.p))

\* Which branch the next iteration of the loop takes.
turnCaseOn(n, name) ==
    IF n.tok.Kind # "TokenPipe" THEN "return"
    ELSE IF ~name.ok THEN "missing"
    ELSE IF name.tok.Kind # "TokenIdentifier" THEN "notName"
    ELSE operatorCase(name.tok.Value)

turnCase(t) ==
    turnCaseOn(next(t.p),
               IF next(t.p).tok.Kind = "TokenPipe"
               THEN next(split(next(t.p).p, "TokenPipe").sub) ELSE next(t.p))

\* tabularExpr, before the loop: name is what p.ident() returned on p0.
tabularSource(p0, name) ==
    IF name.err # Nil
    THEN tabular(Nil, name.err, name.p, nullSpan, -1, <<>>, TRUE)
    ELSE tabular(TabularExpr(TableRef(name.node) @@ [span |-> tokenAt(p0, 1).Span],
                             <<>>),
                 Nil, name.p,
                 tokenAt(p0, 1).Span, tokenAt(p0, 1).Span.Start,
                 Append(identPart(p0, name).nodes,
                        [type |-> "TableRef", span |-> tokenAt(p0, 1).Span,
                         lo |-> tokenAt(p0, 1).Span.Start,
                         hi |-> tokenAt(p0, 1).Span.End]),
                 FALSE)

RECURSIVE tabularLoop(_)
tabularLoop(t) == IF t.done THEN t ELSE tabularLoop(operatorTurn(t))

parserTabularExpr(p) == tabularLoop(tabularSource(p, ident(p)))

\* Parse, after p.tabularExpr() returned t: the error it returns.
parseErrorOf(t) ==
    IF t.p.pos < Len(t.p.tokens)
    THEN joinErrors(t.err,
                    IF t.p.tokens[t.p.pos + 1].Kind = "TokenError"
                    THEN parseError(FALSE, t.p.tokens[t.p.pos + 1].Value)
                    ELSE parseError(FALSE, "unrecognized token"))
    ELSE IF isNotFound(t.err) THEN parseError(FALSE, "empty query")
    ELSE t.err

\* The parser Parse starts with.
newParser(s) == [tokens |-> Scan(s), pos |-> 0, srcLen |-> Len(s)]

\* Parse of a query given as its characters: the expression, the error and
\* the nodes built.
ParseQuery(s) ==
    [expr |-> parserTabularExpr(newParser(s)).node,
     err |-> parseErrorOf(parserTabularExpr(newParser(s))),
     nodes |-> parserTabularExpr(newParser(s)).nodes]

----------------------------------------------------------------------------
(* Lowering: a tabular expression becomes a sequence of subqueries *)

subquery(name, sourceSQL) ==
    [name |-> name, sourceSQL |-> sourceSQL, op |-> Nil, sort |-> Nil, take |-> Nil]

subqueryName(i) == "__subquery" \o ToString(i)

dataSourceSQL(src) == quoteIdentifier(src.Table.Name)

\* dst is the slice (1-based here); dstStart = len(dst) on entry of splitQueries.
chainSubquery(dst, dstStart, src) ==
    subquery(subqueryName(Len(dst)),
             IF Len(dst) > dstStart THEN quoteIdentifier(dst[Len(dst)].name)
             ELSE dataSourceSQL(src))

\* canAttachSort without its summarize and as cases.
canAttachSortButProject(op) == op.type # "ProjectOperator"

canAttachSort(op) ==
    op.type \notin {"ProjectOperator", "SummarizeOperator", "AsOperator"}

\* lastSubquery is a pointer to an element of dst or nil; here its 1-based
\* index in dst, 0 for nil.  The conditions under which each operator starts
\* a new subquery:
sortNeedsSubquery(dst, last) ==
    \/ last = 0
    \/ ~canAttachSort(dst[last].op)
    \/ dst[last].sort # Nil
    \/ dst[last].take # Nil

\* takeNeedsSubquery without the check for an attached take.
takeNeedsSubqueryUnlessTaken(dst, last) ==
    \/ last = 0
    \/ ~canAttachSort(dst[last].op)

takeNeedsSubquery(dst, last) ==
    \/ last = 0
    \/ ~canAttachSort(dst[last].op)
    \/ dst[last].take # Nil

\* topNeedsSubquery without the check for an attached sort.
topNeedsSubqueryUnlessSorted(dst, last) ==
    \/ last = 0
    \/ ~canAttachSort(dst[last].op)
    \/ dst[last].take # Nil

topNeedsSubquery(dst, last) ==
    \/ last = 0
    \/ ~canAttachSort(dst[last].op)
    \/ dst[last].sort # Nil
    \/ dst[last].take # Nil

rewriteSimpleJoinCondition(c) ==
    IF \/ c.type # "QualifiedIdent"
       \/ Len(c.Parts) # 1
       \/ c.Parts[1].Quoted
       \/ c.Parts[1].Name \in DOMAIN builtinIdentifiers
    THEN c
    ELSE BinaryExpr(QualifiedIdent(<<Ident(leftJoinTableAlias, FALSE), c.Parts[1]>>),
                    "==",
                    QualifiedIdent(<<Ident(rightJoinTableAlias, FALSE), c.Parts[1]>>))

RECURSIVE andConditions(_, _, _)
andConditions(x, conds, j) ==
    IF j > Len(conds) THEN x
    ELSE andConditions(BinaryExpr(x, "and", rewriteSimpleJoinCondition(conds[j])),
                       conds, j + 1)

buildJoinCondition(conds) ==
    IF Len(conds) = 0 THEN AsQualified(Ident("true", FALSE))
    ELSE andConditions(rewriteSimpleJoinCondition(conds[1]), conds, 2)

\* The context splitQueries builds for a join's ON expression.
joinExprContext == exprContext(NoScope, joinExprMode)

\* The state of one splitQueries call: dst, lastSubquery and the error so far.
splitState(dst, last, res) == [dst |-> dst, last |-> last, res |-> res]

RECURSIVE splitQueries(_, _)
RECURSIVE splitOperators(_, _, _, _)
RECURSIVE splitOperator(_, _, _, _)

\* The new subquery of a sort, take or top: chained, appended, then attached to.
chained(dst, dstStart, e) == Append(dst, chainSubquery(dst, dstStart, e.Source))

\* case *parser.AsOperator
splitAs(S, dstStart, e, op) ==
    splitState([chained(S.dst, dstStart, e) EXCEPT ![Len(S.dst) + 1].name = op.Name.Name,
                                                  ![Len(S.dst) + 1].op = op],
               Len(S.dst) + 1, S.res)

\* case *parser.SortOperator
splitSort(S, dstStart, e, op) ==
    IF sortNeedsSubquery(S.dst, S.last)
    THEN splitState([chained(S.dst, dstStart, e) EXCEPT ![Len(S.dst) + 1].sort = op],
                    Len(S.dst) + 1, S.res)
    ELSE splitState([S.dst EXCEPT ![S.last].sort = op], S.last, S.res)

\* case *parser.TakeOperator
splitTake(S, dstStart, e, op) ==
    IF takeNeedsSubquery(S.dst, S.last)
    THEN splitState([chained(S.dst, dstStart, e) EXCEPT ![Len(S.dst) + 1].take = op],
                    Len(S.dst) + 1, S.res)
    ELSE splitState([S.dst EXCEPT ![S.last].take = op], S.last, S.res)

\* case *parser.TopOperator: a synthetic sort and take
splitTop(S, dstStart, e, op) ==
    IF topNeedsSubquery(S.dst, S.last)
    THEN splitState([chained(S.dst, dstStart, e) EXCEPT
                        ![Len(S.dst) + 1].sort = SortOperator(<<op.Col>>),
                        ![Len(S.dst) + 1].take = TakeOperator(op.RowCount)],
                    Len(S.dst) + 1, S.res)
    ELSE splitState([S.dst EXCEPT ![S.last].sort = SortOperator(<<op.Col>>),
                                  ![S.last].take = TakeOperator(op.RowCount)],
                    S.last, S.res)

\* joinFlavorName with inner as the default flavor.
joinFlavorNameInner(op) == IF op.Flavor # Nil THEN op.Flavor.Name ELSE "inner"

joinFlavorName(op) == IF op.Flavor # Nil THEN op.Flavor.Name ELSE "innerunique"

\* The left input of a join: the subquery before it in this chain, or the table.
joinLeft(dst, dstStart, e) ==
    IF Len(dst) > dstStart THEN quoteIdentifier(dst[Len(dst)].name)
    ELSE dataSourceSQL(e.Source)

\* joinSource up to and including " ON ".
joinSource(flavorName, left, right) ==
    (IF flavorName = "innerunique" THEN "(SELECT DISTINCT * FROM " ELSE "")
    \o left
    \o (IF flavorName = "innerunique" THEN ")" ELSE "")
    \o " AS " \o Q \o leftJoinTableAlias \o Q
    \o (IF flavorName = "leftouter" THEN " LEFT JOIN " ELSE " JOIN ")
    \o right
    \o " AS " \o Q \o rightJoinTableAlias \o Q \o " ON "

\* case *parser.JoinOperator, from the write of the ON condition (on) onwards;
\* rdst is dst after the right-hand side has been split.
splitJoinOn(rdst, from, on) ==
    IF on.st # "ok" THEN splitState(<<>>, 0, on)
    ELSE splitState(Append(rdst, subquery(subqueryName(Len(rdst)), from \o on.out)),
                    Len(rdst) + 1, Ok(""))

\* case *parser.JoinOperator, after the recursive call returned R.
splitJoinRight(R, left, op) ==
    IF R.res.st # "ok" THEN splitState(<<>>, 0, R.res)
    ELSE IF joinFlavorName(op) \notin {"inner", "innerunique", "leftouter"}
    THEN splitState(<<>>, 0, Err("unhandled join type"))
    ELSE splitJoinOn(R.dst,
                     joinSource(joinFlavorName(op), left,
                                quoteIdentifier(R.dst[Len(R.dst)].name)),
                     writeExpression(joinExprContext,
                                     buildJoinCondition(op.Conditions)))

\* case *parser.JoinOperator
splitJoin(S, dstStart, e, op) ==
    splitJoinRight(splitQueries(S.dst, op.Right), joinLeft(S.dst, dstStart, e), op)

\* default
splitDefault(S, dstStart, e, op) ==
    splitState([chained(S.dst, dstStart, e) EXCEPT ![Len(S.dst) + 1].op = op],
               Len(S.dst) + 1, S.res)

\* One iteration of the loop of splitQueries, for operator op.
splitOperator(S, dstStart, e, op) ==
    CASE op.type = "AsOperator" -> splitAs(S, dstStart, e, op)
      [] op.type = "SortOperator" -> splitSort(S, dstStart, e, op)
      [] op.type = "TakeOperator" -> splitTake(S, dstStart, e, op)
      [] op.type = "TopOperator" -> splitTop(S, dstStart, e, op)
      [] op.type = "JoinOperator" -> splitJoin(S, dstStart, e, op)
      [] OTHER -> splitDefault(S, dstStart, e, op)

\* The operators e.Operators[j..] in turn; an error ends the call.
splitOperators(S, dstStart, e, j) ==
    IF S.res.st # "ok" \/ j > Len(e.Operators) THEN S
    ELSE splitOperators(splitOperator(S, dstStart, e, e.Operators[j]),
                        dstStart, e, j + 1)

\* splitReturn adding a closing subquery to every chain.
splitReturnClosing(S, dstStart, e) ==
    IF S.res.st = "ok"
    THEN splitState(Append(S.dst, chainSubquery(S.dst, dstStart, e.Source)),
                    Len(S.dst) + 1, S.res)
    ELSE S

\* The end of splitQueries: at least one subquery is added.
splitReturn(S, dstStart, e) ==
    IF S.res.st = "ok" /\ Len(S.dst) = dstStart
    THEN splitState(Append(S.dst, chainSubquery(S.dst, dstStart, e.Source)),
                    Len(S.dst) + 1, S.res)
    ELSE S

splitQueries(dst, e) ==
    splitReturn(splitOperators(splitState(dst, 0, Ok("")), Len(dst), e, 1),
                Len(dst), e)

----------------------------------------------------------------------------
(* subquery.write *)

RECURSIVE writeProjectCols(_, _, _)
writeProjectCols(ctx, cols, j) ==
    IF j > Len(cols) THEN Ok("")
    ELSE LET col == cols[j]
         IN  Then4(Ok(IF j > 1 THEN ", " ELSE ""),
                   IF col.X = Nil THEN writeExpression(ctx, AsQualified(col.Name))
                   ELSE writeExpression(ctx, col.X),
                   Ok(" AS " \o quoteIdentifier(col.Name.Name)),
                   writeProjectCols(ctx, cols, j + 1))

RECURSIVE writeExtendCols(_, _, _)
writeExtendCols(ctx, cols, j) ==
    IF j > Len(cols) THEN Ok("")
    ELSE LET col == cols[j]
         IN  Then5(Ok(", "),
                   writeExpression(ctx, col.X),
                   IF col.X = Nil THEN writeExpression(ctx, AsQualified(col.Name))
                   ELSE Ok(""),
                   Ok(" AS " \o quoteIdentifier(IF col.Name # Nil THEN col.Name.Name
                                                ELSE col.Text)),
                   writeExtendCols(ctx, cols, j + 1))

\* The columns of a summarize; `first` says whether no comma precedes cols[1].
RECURSIVE writeSummarizeCols(_, _, _, _)
writeSummarizeCols(ctx, cols, j, first) ==
    IF j > Len(cols) THEN Ok("")
    ELSE LET col == cols[j]
         IN  Then4(Ok(IF j > 1 \/ ~first THEN ", " ELSE ""),
                   writeExpression(ctx, col.X),
                   Ok(" AS " \o quoteIdentifier(IF col.Name # Nil THEN col.Name.Name
                                                ELSE col.Text)),
                   writeSummarizeCols(ctx, cols, j + 1, first))

RECURSIVE writeGroupBy(_, _, _)
writeGroupBy(ctx, cols, j) ==
    IF j > Len(cols) THEN Ok("")
    ELSE Then3(Ok(IF j > 1 THEN ", " ELSE ""),
               writeExpression(ctx, cols[j].X),
               writeGroupBy(ctx, cols, j + 1))

RECURSIVE writeSortTerms(_, _, _)
writeSortTerms(ctx, terms, j) ==
    IF j > Len(terms) THEN Ok("")
    ELSE LET term == terms[j]
         IN  Then5(writeExpression(ctx, term.X),
                   Ok(IF term.Asc THEN " ASC" ELSE " DESC"),
                   Ok(IF term.NullsFirst THEN " NULLS FIRST" ELSE " NULLS LAST"),
                   Ok(IF j < Len(terms) THEN ", " ELSE ""),
                   writeSortTerms(ctx, terms, j + 1))

\* The switch on sub.op.
writePrimary(sub, ctx, op) ==
    CASE op.type \in {"nil", "AsOperator"} ->
           Ok("SELECT * FROM " \o sub.sourceSQL)
      [] op.type = "ProjectOperator" ->
           Then3(Ok("SELECT "), writeProjectCols(ctx, op.Cols, 1),
                 Ok(" FROM " \o sub.sourceSQL))
      [] op.type = "ExtendOperator" ->
           Then3(Ok("SELECT *"), writeExtendCols(ctx, op.Cols, 1),
                 Ok(" FROM " \o sub.sourceSQL))
      [] op.type = "SummarizeOperator" ->
           Then5(Ok("SELECT "),
                 writeSummarizeCols(ctx, op.GroupBy, 1, TRUE),
                 writeSummarizeCols(ctx, op.Cols, 1, Len(op.GroupBy) = 0),
                 Ok(" FROM " \o sub.sourceSQL),
                 IF Len(op.GroupBy) > 0
                 THEN Then(Ok(" GROUP BY "), writeGroupBy(ctx, op.GroupBy, 1))
                 ELSE Ok(""))
      [] op.type = "WhereOperator" ->
           Then(Ok("SELECT * FROM " \o sub.sourceSQL \o " WHERE "),
                writeExpression(ctx, op.Predicate))
      [] op.type = "CountOperator" ->
           Ok("SELECT COUNT(*) AS " \o Q \o "count()" \o Q \o " FROM "
              \o sub.sourceSQL)
      [] OTHER -> Ok("SELECT NULL /* unsupported operator " \o op.type \o " */")

\* `if sub.sort != nil { ... }`
writeOrderBy(sub, ctx) ==
    IF sub.sort # Nil
    THEN Then(Ok(" ORDER BY "), writeSortTerms(ctx, sub.sort.Terms, 1))
    ELSE Ok("")

\* `if sub.take != nil { ... }`
writeLimit(sub, ctx) ==
    IF sub.take # Nil
    THEN Then(Ok(" LIMIT "), writeExpression(ctx, sub.take.RowCount))
    ELSE Ok("")

\* The default case of the switch returns at once; the others go on to the
\* ORDER BY and LIMIT clauses.
subqueryWrite(sub, ctx) ==
    IF sub.op.type \in {"nil", "AsOperator", "ProjectOperator", "ExtendOperator",
                        "SummarizeOperator", "WhereOperator", "CountOperator"}
    THEN Then3(writePrimary(sub, ctx, sub.op), writeOrderBy(sub, ctx),
               writeLimit(sub, ctx))
    ELSE writePrimary(sub, ctx, sub.op)

----------------------------------------------------------------------------
(* Parse, as far as Compile depends on it *)

(* A source is a table name and its piped operators.  A `sort` or `top`    *)
(* operator enters as the region of tokens after its keyword (what split   *)
(* hands to the operator's parser) and is parsed by the productions above; *)
(* the other operators enter as the nodes their productions build.         *)
Region(keyword, tokens, end) ==
    [type |-> "Region", Keyword |-> keyword, Tokens |-> tokens, End |-> end]

\* tabularExpr: r is what the operator's production returned; endSplit follows.
tabularOperatorEnd(r) ==
    [node |-> r.node, err |-> joinErrors(r.err, endSplit(r.p))]

\* The parser split hands to an operator's production, past the keyword.
splitParser(pre) == [tokens |-> pre.Tokens, pos |-> 0, srcLen |-> pre.End]

\* One iteration of the loop of tabularExpr, for the operator after a pipe.
tabularOperator(pre) ==
    IF pre.type # "Region" THEN [node |-> pre, err |-> Nil]
    ELSE IF pre.Keyword \in {"sort", "order"}
    THEN tabularOperatorEnd(sortOperator(splitParser(pre)))
    ELSE IF pre.Keyword = "top"
    THEN tabularOperatorEnd(topOperator(splitParser(pre)))
    ELSE [node |-> UnknownTabularOperator(pre.Tokens),
          err |-> parseError(FALSE, "unknown operator name")]

\* expr.Operators and finalError after an iteration that returned r.
tabularAppend(acc, r) ==
    [node |-> [acc.node EXCEPT !.Operators = Append(@, r.node)],
     err |-> joinErrors(acc.err, r.err)]

RECURSIVE tabularOperators(_, _, _)
tabularOperators(pres, j, acc) ==
    IF j > Len(pres) THEN acc
    ELSE tabularOperators(pres, j + 1, tabularAppend(acc, tabularOperator(pres[j])))

tabularExpr(src) ==
    tabularOperators(src.Operators, 1,
                     [node |-> TabularExpr(src.Source, <<>>), err |-> Nil])

\* Parse, given what p.tabularExpr() returned.
parseResult(r) ==
    [expr |-> r.node,
     err |-> IF r.err # Nil
             THEN Err("parse pipeline query language: " \o r.err.msg)
             ELSE Nil]

Parse(src) == parseResult(tabularExpr(src))

----------------------------------------------------------------------------
(* Compile *)

compileContext(opts) ==
    exprContext(IF opts # Nil THEN opts.Parameters ELSE NoScope, defaultExprMode)

\* One iteration of the loop over the CTEs: ctes[k], the k-th of n.
writeCTE(ctx, sub, k, n) ==
    Then4(Ok(quoteIdentifier(sub.name) \o " AS ("),
          subqueryWrite(sub, ctx),
          Ok(")"),
          Ok(IF k < n THEN ",\n     " ELSE "\n"))

RECURSIVE writeCTEs(_, _, _)
writeCTEs(ctx, subqueries, k) ==
    IF k >= Len(subqueries) THEN Ok("")
    ELSE Then(writeCTE(ctx, subqueries[k], k, Len(subqueries) - 1),
              writeCTEs(ctx, subqueries, k + 1))

\* Compile, after splitQueries returned S.
compileSubqueries(opts, S) ==
    IF S.res.st # "ok" THEN S.res
    ELSE Then4(Ok(IF Len(S.dst) > 1 THEN "WITH " ELSE ""),
               writeCTEs(compileContext(opts), S.dst, 1),
               subqueryWrite(S.dst[Len(S.dst)], compileContext(opts)),
               Ok(";"))

\* Compile, after Parse returned r.
compileParsed(opts, r) ==
    IF r.err # Nil THEN r.err
    ELSE compileSubqueries(opts, splitQueries(<<>>, r.expr))

Compile(opts, src) == compileParsed(opts, Parse(src))

----------------------------------------------------------------------------
(* The inputs of Compile that the model runs *)

MaxOps == 3

id(name) == AsQualified(Ident(name, FALSE))

path(a, b) == QualifiedIdent(<<Ident(a, FALSE), Ident(b, FALSE)>>)

num(value) == BasicLit("TokenNumber", value)

Eq(x, y) == BinaryExpr(x, "==", y)

plainTerm(x) == SortTerm(x, FALSE, nullSpan, FALSE, nullSpan)

table(name) == TableRef(Ident(name, FALSE))

\* Tokens as Scan yields them for words separated by single spaces.
word(kind, value) == [Kind |-> kind, Value |-> value]

wId(value) == word("TokenIdentifier", value)

wNum(value) == word("TokenNumber", value)

wBy == word("TokenBy", "by")

wComma == word("TokenComma", ",")

wDot == word("TokenDot", ".")

RECURSIVE regionTokens(_, _, _)
regionTokens(words, j, start) ==
    IF j > Len(words) THEN <<>>
    ELSE LET end == start + Len(words[j].Value)
         IN  <<Token(words[j].Kind, words[j].Value, newSpan(start, end))>>
             \o regionTokens(words, j + 1, end + 1)

region(keyword, words) ==
    LET toks == regionTokens(words, 1, 0)
    IN  Region(keyword, toks,
               IF Len(toks) = 0 THEN 0 ELSE toks[Len(toks)].Span.End)

\* T | ... | <operator>: the operators the pipelines are built from
Operators ==
    { CountOperator,
      WhereOperator(Eq(id("a"), num("1"))),
      region("sort", <<wBy, wId("a")>>),
      TakeOperator(num("1")),
      region("top", <<wNum("2"), wBy, wId("b")>>),
      ProjectOperator(<<ProjectColumn(Ident("a", FALSE), Nil),
                        ProjectColumn(Ident("b", FALSE), Nil)>>),
      ExtendOperator(<<ExtendColumn(Ident("c", FALSE), num("1"), "1")>>),
      SummarizeOperator(
          <<SummarizeColumn(Ident("n", FALSE),
                            CallExpr(Ident("count", FALSE), <<>>), "count()")>>,
          <<SummarizeColumn(Nil, id("a"), "a")>>),
      JoinOperator(Nil, TabularExpr(table("Y"), <<>>), <<id("Key")>>),
      JoinOperator(Ident("inner", FALSE),
                   TabularExpr(table("Y"),
                               <<WhereOperator(Eq(id("a"), num("1"))),
                                 SortOperator(<<plainTerm(id("a"))>>)>>),
                   <<Eq(path("$left", "a"), path("$right", "b"))>>),
      JoinOperator(Ident("leftouter", FALSE),
                   TabularExpr(table("Y"),
                               <<JoinOperator(Nil, TabularExpr(table("Z"), <<>>),
                                              <<id("Key")>>)>>),
                   <<id("Key"), BinaryExpr(id("b"), "!=", num("1"))>>),
      AsOperator(Ident("x", FALSE)) }

Pipelines ==
    UNION { [1..n -> Operators] : n \in 0..MaxOps }

\* Expressions for the places of a statement that hold one
SiteExprs ==
    { id("a"), id("p"), id("true"), id("$left"),
      AsQualified(Ident("p", TRUE)),
      path("p", "a"), path("a", "p"),
      path("$left", "a"), path("$right", "a"),
      QualifiedIdent(<<Ident("$left", TRUE), Ident("a", FALSE)>>),
      Eq(path("$left", "a"), path("$right", "a")),
      Eq(path("$left", "a"), id("p")),
      Eq(id("a"), id("p")),
      BinaryExpr(id("p"), "+", num("1")),
      BinaryExpr(id("a"), "=~", id("p")),
      UnaryExpr("-", id("p")),
      ParenExpr(id("p")),
      Eq(ParenExpr(path("$left", "a")), num("1")),
      CallExpr(Ident("strcat", FALSE), <<id("p"), path("$left", "a")>>),
      CallExpr(Ident("f", FALSE), <<id("p")>>),
      CallExpr(Ident("p", FALSE), <<id("a")>>),
      InExpr(id("p"), <<id("p"), num("1")>>),
      IndexExpr(id("a"), id("p")) }

Sites == {"where", "project", "extend", "summarize", "by", "sort", "top", "on",
          "right"}

countCol == SummarizeColumn(Ident("n", FALSE),
                            CallExpr(Ident("count", FALSE), <<>>), "count()")

\* The operator that holds expression x at the given site.
siteOperator(site, x) ==
    CASE site = "where" -> WhereOperator(x)
      [] site = "project" -> ProjectOperator(<<ProjectColumn(Ident("c", FALSE), x)>>)
      [] site = "extend" -> ExtendOperator(<<ExtendColumn(Ident("c", FALSE), x, "x")>>)
      [] site = "summarize" ->
           SummarizeOperator(<<SummarizeColumn(Ident("c", FALSE), x, "x")>>, <<>>)
      [] site = "by" ->
           SummarizeOperator(<<countCol>>, <<SummarizeColumn(Ident("c", FALSE), x, "x")>>)
      [] site = "sort" -> SortOperator(<<plainTerm(x)>>)
      [] site = "top" -> TopOperator(num("1"), plainTerm(x))
      [] site = "on" -> JoinOperator(Nil, TabularExpr(table("Y"), <<>>), <<x>>)
      [] site = "right" ->
           JoinOperator(Nil, TabularExpr(table("Y"), <<WhereOperator(x)>>),
                        <<id("Key")>>)

\* sort and top regions: every direction and nulls clause, lists, and errors
SortRegions ==
    { region("sort", <<wBy, wId("a")>> \o tail) :
        tail \in { <<>>, <<wId("asc")>>, <<wId("desc")>>,
                   <<wId("nulls"), wId("first")>>, <<wId("nulls"), wId("last")>>,
                   <<wId("asc"), wId("nulls"), wId("last")>>,
                   <<wId("desc"), wId("nulls"), wId("first")>>,
                   <<wComma, wId("b"), wId("desc")>>,
                   <<wDot, wId("b")>>,
                   <<wId("nulls"), wId("x")>>,
                   <<wId("asc"), wId("asc")>>,
                   <<wComma>> } }
    \cup { region("sort", <<wId("a")>>), region("order", <<wBy, wNum("1")>>),
           region("frob", <<wId("a")>>) }

TopRegions ==
    { region("top", <<wNum("3"), wBy, wId("a")>> \o tail) :
        tail \in { <<>>, <<wId("asc")>>, <<wId("desc")>>,
                   <<wId("nulls"), wId("first")>>,
                   <<wId("desc"), wId("nulls"), wId("first")>>,
                   <<wId("nulls")>> } }
    \cup { region("top", <<wId("a")>>), region("top", <<wNum("3"), wId("a")>>),
           region("top", <<wNum("1.5"), wBy, wId("a")>>),
           region("top", <<wNum("3"), wBy>>) }

\* CompileOptions: nil, or one parameter
Options == { Nil, [Parameters |-> [n \in {"p"} |-> "\"q\""]] }

source(tableName, operators) ==
    [Source |-> table(tableName), Operators |-> operators]

\* The calls Compile(opts, source) the model makes.
Inputs ==
    { [opts |-> Nil, source |-> source("T", ops)] : ops \in Pipelines }
    \cup { [opts |-> o, source |-> source("T", <<siteOperator(site, x)>>)] :
             o \in Options, site \in Sites, x \in SiteExprs }
    \cup { [opts |-> Nil, source |-> source("T", <<r>>)] :
             r \in SortRegions \cup TopRegions }
    \cup { [opts |-> Nil, source |-> source("T", <<r, TakeOperator(num("3"))>>)] :
             r \in SortRegions }

----------------------------------------------------------------------------
(* Compile as a state machine: one call, step by step *)

VARIABLES
    src,           \* the source argument
    opts,          \* the receiver, Nil for none
    pc,            \* "parse", "split", "write"; "done" once Compile has returned;
                   \* "hang" or "panic" if it never returns
    parsedExpr,    \* expr, the parsed expression
    i,             \* splitQueries: index of the next operator (0-based)
    dst,           \* splitQueries: the subqueries so far
    lastSubquery,  \* splitQueries: index in dst of lastSubquery, 0 for nil
    k,             \* Compile: number of CTEs written
    sb,            \* Compile: the string builder
    ret,           \* what Compile returned, Nil before
    \* one call of writeExpression or writeExpressionMaybeParen, step by step
    wfn,           \* which of the two is called
    wctx,          \* its ctx argument
    wx0,           \* its x argument
    wx,            \* the local x of the loop that unwraps parentheses
    wit,           \* iterations of that loop so far
    wpc,           \* "loop"; "done" once the call has returned; "hang" or
                   \* "panic" if it never returns
    wret,          \* what the call wrote and returned, Nil before
    \* one call of Scan(query):
    query,         \* its argument, a sequence of characters
    spos,          \* s.pos
    slast,         \* s.last
    tokens,        \* the tokens appended so far
    spc,           \* "scan" inside the loop, "done" once returned
    \* one call of Parse(query), whose parser holds Scan(query) as tokens:
    ppos,          \* p.pos
    ast,           \* tabularExpr: expr, Nil before the table name is read
    astSpan,       \* what expr.Span() would return
    astNodes,      \* the nodes built, each with its Span() and the range of
                   \* the tokens read to build it
    finalError,    \* tabularExpr: finalError
    ppc,           \* "start", "loop" inside the loop, "done" once returned
    pret,          \* the error Parse returned, Nil for none
    \* one call of SuggestCompletions(query, cursor) on the context actx:
    actx,          \* the receiver: the columns of each table it knows
    cursor,        \* cursor.End
    prefix,        \* completionPrefix(tokens, pos)
    gop,           \* suggestTabularExpr: the index i of the operator found
    columns,       \* determineColumnsInScope: columns, as their names
    gi,            \* determineColumnsInScope: operators folded so far
    gpc,           \* "start", "scope" inside the fold, "switch" after it,
                   \* "done" once returned, "panic" if the call crashed
    gret,          \* the completions returned, Nil before
    \* calls of one function of the program with the same arguments:
    callee,        \* the function called
    arguments,     \* its arguments
    results,       \* what each call made so far returned, in order
    \* goroutines that call initKnownFunctions:
    onceDone,      \* knownFunctions.init: its done flag
    onceLock,      \* knownFunctions.init: the holder of its mutex, 0 for none
    registry,      \* knownFunctions.m, Nil before it is assigned
    builds,        \* how many times knownFunctions.m was assigned
    routines,      \* each goroutine: where it is and the table it got
    \* the cursor of one parser over its tokens, moved by next, by prev and
    \* by the productions that go back to a position they saved:
    restorePos,    \* the position a production saved, -1 for none
    eof,           \* whether next has returned the end of input
    tpc            \* where the production that moves the cursor is

cvars == <<src, opts, pc, parsedExpr, i, dst, lastSubquery, k, sb, ret>>

wvars == <<wfn, wctx, wx0, wx, wit, wpc, wret>>

svars == <<query, spos, slast, tokens, spc>>

\* The variables of the calls into the lexer, the parser and the completion
\* engine.
pvars == <<ppos, ast, astSpan, astNodes, finalError, ppc, pret>>

gvars == <<actx, cursor, prefix, gop, columns, gi, gpc, gret>>

fvars == <<svars, pvars, gvars>>

\* The variables of the calls of single functions, of the registry of known
\* functions and of the parser cursor.
uvars == <<callee, arguments, results>>

kvars == <<onceDone, onceLock, registry, builds, routines>>

tvars == <<restorePos, eof, tpc>>

xvars == <<uvars, kvars, tvars>>

vars == <<cvars, wvars, xvars, fvars, xvars>>

\* No call of Compile is under way.
noCompile ==
    /\ src = Nil /\ opts = Nil /\ pc = "idle" /\ parsedExpr = Nil /\ i = 0
    /\ dst = <<>> /\ lastSubquery = 0 /\ k = 0 /\ sb = "" /\ ret = Nil

\* No separate call of the expression writer is under way.
noWrite ==
    /\ wfn = "" /\ wctx = Nil /\ wx0 = Nil /\ wx = Nil /\ wit = 0
    /\ wpc = "idle" /\ wret = Nil

\* No separate call of Scan is under way.
noScan ==
    /\ query = <<>> /\ spos = 0 /\ slast = 0 /\ tokens = <<>> /\ spc = "idle"

\* No separate call of Parse is under way.
noParse ==
    /\ ppos = 0 /\ ast = Nil /\ astSpan = nullSpan /\ astNodes = <<>>
    /\ finalError = Nil /\ ppc = "idle" /\ pret = Nil

\* No call of SuggestCompletions is under way.
noSuggest ==
    /\ actx = Nil /\ cursor = 0 /\ prefix = nullSpan /\ gop = 0 /\ columns = <<>>
    /\ gi = 0 /\ gpc = "idle" /\ gret = Nil

noFront == noScan /\ noParse /\ noSuggest

\* No function is called on its own.
noCall == callee = "" /\ arguments = Nil /\ results = <<>>

\* No goroutine calls initKnownFunctions.
noRoutines ==
    /\ onceDone = FALSE /\ onceLock = 0 /\ registry = Nil /\ builds = 0
    /\ routines = <<>>

\* No parser cursor is followed.
noCursor == restorePos = -1 /\ eof = FALSE /\ tpc = "idle"

noExtra == noCall /\ noRoutines /\ noCursor

Init ==
    /\ \E in \in Inputs : src = in.source /\ opts = in.opts
    /\ pc = "parse"
    /\ parsedExpr = Nil
    /\ i = 0
    /\ dst = <<>>
    /\ lastSubquery = 0
    /\ k = 0
    /\ sb = ""
    /\ ret = Nil
    /\ noWrite
    /\ noFront
    /\ noExtra

\* Where a failed step leaves the call: returned with the error, or not at all.
failed(res) ==
    /\ pc' = IF res.st = "error" THEN "done" ELSE res.st
    /\ ret' = IF res.st = "error" THEN res ELSE Nil

\* Parse has returned r.
parsedAs(r) ==
    IF r.err # Nil
    THEN failed(r.err) /\ UNCHANGED parsedExpr
    ELSE pc' = "split" /\ parsedExpr' = r.expr /\ UNCHANGED ret

CompileParse ==
    /\ pc = "parse"
    /\ parsedAs(Parse(src))
    /\ UNCHANGED <<src, opts, i, dst, lastSubquery, k, sb, wvars, fvars, xvars>>

\* An iteration of the loop of splitQueries has left S.
splitLeft(S) ==
    IF S.res.st # "ok"
    THEN failed(S.res) /\ UNCHANGED <<i, dst, lastSubquery>>
    ELSE /\ dst' = S.dst
         /\ lastSubquery' = S.last
         /\ i' = i + 1
         /\ UNCHANGED <<pc, ret>>

\* The loop of the outermost splitQueries call is at an operator: its type
\* switch (dstStart is 0 there).
OperatorTypes == {"AsOperator", "SortOperator", "TakeOperator", "TopOperator",
                  "JoinOperator"}

atOperator(type) ==
    /\ pc = "split"
    /\ i < Len(parsedExpr.Operators)
    /\ IF type = "default" THEN parsedExpr.Operators[i + 1].type \notin OperatorTypes
       ELSE parsedExpr.Operators[i + 1].type = type

SplitAs ==
    /\ atOperator("AsOperator")
    /\ splitLeft(splitAs(splitState(dst, lastSubquery, Ok("")), 0, parsedExpr,
                 parsedExpr.Operators[i + 1]))
    /\ UNCHANGED <<src, opts, parsedExpr, k, sb, wvars, fvars, xvars>>

SplitSort ==
    /\ atOperator("SortOperator")
    /\ splitLeft(splitSort(splitState(dst, lastSubquery, Ok("")), 0, parsedExpr,
                 parsedExpr.Operators[i + 1]))
    /\ UNCHANGED <<src, opts, parsedExpr, k, sb, wvars, fvars, xvars>>

SplitTake ==
    /\ atOperator("TakeOperator")
    /\ splitLeft(splitTake(splitState(dst, lastSubquery, Ok("")), 0, parsedExpr,
                 parsedExpr.Operators[i + 1]))
    /\ UNCHANGED <<src, opts, parsedExpr, k, sb, wvars, fvars, xvars>>

SplitTop ==
    /\ atOperator("TopOperator")
    /\ splitLeft(splitTop(splitState(dst, lastSubquery, Ok("")), 0, parsedExpr,
                 parsedExpr.Operators[i + 1]))
    /\ UNCHANGED <<src, opts, parsedExpr, k, sb, wvars, fvars, xvars>>

SplitJoin ==
    /\ atOperator("JoinOperator")
    /\ splitLeft(splitJoin(splitState(dst, lastSubquery, Ok("")), 0, parsedExpr,
                 parsedExpr.Operators[i + 1]))
    /\ UNCHANGED <<src, opts, parsedExpr, k, sb, wvars, fvars, xvars>>

SplitDefault ==
    /\ atOperator("default")
    /\ splitLeft(splitDefault(splitState(dst, lastSubquery, Ok("")), 0, parsedExpr,
                 parsedExpr.Operators[i + 1]))
    /\ UNCHANGED <<src, opts, parsedExpr, k, sb, wvars, fvars, xvars>>

\* splitQueries has returned S: Compile starts the statement.
returnedAs(S) ==
    /\ dst' = S.dst
    /\ lastSubquery' = S.last
    /\ sb' = IF Len(S.dst) > 1 THEN "WITH " ELSE ""

\* The loop is over: splitQueries returns and Compile starts writing.
SplitReturn ==
    /\ pc = "split"
    /\ i = Len(parsedExpr.Operators)
    /\ returnedAs(splitReturn(splitState(dst, lastSubquery, Ok("")), 0, parsedExpr))
    /\ pc' = "write"
    /\ UNCHANGED <<src, opts, parsedExpr, i, k, ret, wvars, fvars, xvars>>

\* The body of the loop over the CTEs has ended with res.
wroteCTE(res) ==
    IF res.st # "ok"
    THEN failed(res) /\ UNCHANGED <<k, sb>>
    ELSE /\ sb' = sb \o res.out
         /\ k' = k + 1
         /\ UNCHANGED <<pc, ret>>

WriteCTE ==
    /\ pc = "write"
    /\ k < Len(dst) - 1
    /\ wroteCTE(writeCTE(compileContext(opts), dst[k + 1], k + 1, Len(dst) - 1))
    /\ UNCHANGED <<src, opts, parsedExpr, i, dst, lastSubquery, wvars, fvars, xvars>>

\* query.write has ended with res.
wroteQuery(res) ==
    IF res.st # "ok"
    THEN failed(res) /\ UNCHANGED sb
    ELSE /\ sb' = sb \o res.out \o ";"
         /\ pc' = "done"
         /\ ret' = Ok(sb \o res.out \o ";")

WriteQuery ==
    /\ pc = "write"
    /\ k = Len(dst) - 1
    /\ wroteQuery(subqueryWrite(dst[Len(dst)], compileContext(opts)))
    /\ UNCHANGED <<src, opts, parsedExpr, i, dst, lastSubquery, k, wvars, fvars, xvars>>

Next ==
    \/ CompileParse
    \/ SplitAs
    \/ SplitSort
    \/ SplitTake
    \/ SplitTop
    \/ SplitJoin
    \/ SplitDefault
    \/ SplitReturn
    \/ WriteCTE
    \/ WriteQuery

Spec == Init /\ [][Next]_vars

----------------------------------------------------------------------------
(* One call of writeExpression / writeExpressionMaybeParen, step by step *)

\* Iterations of the unwrapping loop the model follows.
MaxUnwrap == 4

JoinConditions ==
    { Eq(path("$left", "a"), path("$right", "b")),
      Eq(path("$right", "a"), path("$left", "a")),
      Eq(path("$left", "a"), path("$left", "b")),
      Eq(path("$left", "a"), num("1")),
      Eq(id("a"), id("b")),
      Eq(BinaryExpr(path("$left", "a"), "+", path("$right", "b")), num("1")),
      Eq(num("1"), CallExpr(Ident("f", FALSE),
                            <<path("$right", "a"), path("$left", "b")>>)),
      Eq(QualifiedIdent(<<Ident("$left", TRUE), Ident("a", FALSE)>>),
         path("$right", "a")),
      Eq(path("a", "$left"), path("$right", "a")),
      Eq(CallExpr(Ident("$left", FALSE), <<id("a")>>), path("$right", "a")),
      Eq(ParenExpr(path("$left", "a")), path("$right", "a")),
      BinaryExpr(path("$left", "a"), "!=", path("$right", "a")),
      BinaryExpr(id("a"), "!=", num("1")),
      BinaryExpr(path("$left", "a"), "<", path("$right", "a")),
      BinaryExpr(Eq(path("$left", "a"), path("$right", "a")), "and",
                 Eq(id("b"), num("1"))),
      BinaryExpr(Eq(path("$left", "a"), path("$right", "a")), "or",
                 BinaryExpr(path("$right", "b"), "!=", BasicLit("TokenString", "s"))) }

OtherExprs ==
    { ParenExpr(ParenExpr(id("a"))),
      ParenExpr(Eq(id("a"), num("1"))),
      BinaryExpr(ParenExpr(BinaryExpr(id("a"), "+", id("b"))), "*", num("2")),
      BinaryExpr(id("a"), "!~", BasicLit("TokenString", "s")),
      BinaryExpr(id("a"), "??", id("b")),
      UnaryExpr("!", id("a")),
      BasicLit("TokenString", "s"),
      BasicLit("TokenError", "e"),
      CallExpr(Ident("not", FALSE), <<Eq(id("a"), num("1"))>>),
      CallExpr(Ident("not", FALSE), <<>>),
      CallExpr(Ident("now", FALSE), <<>>),
      CallExpr(Ident("isnull", FALSE), <<id("a")>>),
      CallExpr(Ident("isnotnull", FALSE), <<id("a")>>),
      CallExpr(Ident("count", FALSE), <<>>),
      CallExpr(Ident("countif", FALSE), <<Eq(id("a"), num("1"))>>),
      CallExpr(Ident("iff", FALSE), <<id("a"), num("1"), num("2")>>),
      CallExpr(Ident("tolower", FALSE), <<id("a")>>),
      CallExpr(Ident("toupper", FALSE), <<id("a")>>),
      CallExpr(Ident("strcat", FALSE), <<>>) }

WriteExprs == SiteExprs \cup JoinConditions \cup OtherExprs

WriteContexts ==
    { exprContext(NoScope, defaultExprMode),
      exprContext(NoScope, joinExprMode),
      exprContext([n \in {"p"} |-> "\"q\""], defaultExprMode) }

WriteInit ==
    /\ wfn \in {"writeExpression", "writeExpressionMaybeParen"}
    /\ wctx \in WriteContexts
    /\ wx0 \in WriteExprs
    /\ wx = wx0
    /\ wit = 0
    /\ wpc = "loop"
    /\ wret = Nil
    /\ noCompile
    /\ noFront
    /\ noExtra

\* `p, ok := x.(*parser.ParenExpr)` with ok true, then the body of the loop.
Unwrap ==
    /\ wpc = "loop"
    /\ wx.type = "ParenExpr"
    /\ wit < MaxUnwrap
    /\ wx' = UnwrapAssign(wx)
    /\ wit' = wit + 1
    /\ UNCHANGED <<wfn, wctx, wx0, wpc, wret, cvars, fvars, xvars>>

\* The rest of the call has ended with res.
wrote(res) ==
    /\ wpc' = IF res.st \in {"ok", "error"} THEN "done" ELSE res.st
    /\ wret' = IF res.st \in {"ok", "error"} THEN res ELSE Nil

\* `p, ok := x.(*parser.ParenExpr)` with ok false: break, and the rest.
Break ==
    /\ wpc = "loop"
    /\ wx.type # "ParenExpr"
    /\ wrote(IF wfn = "writeExpression" THEN writeExpressionSwitch(wctx, wx)
             ELSE writeExpressionMaybeParenSwitch(wctx, wx))
    /\ UNCHANGED <<wfn, wctx, wx0, wx, wit, cvars, fvars, xvars>>

WriteNext ==
    \/ Unwrap
    \/ Break

WriteSpec == WriteInit /\ [][WriteNext]_vars

----------------------------------------------------------------------------
(* Termination of the expression writer *)

RECURSIVE ParenDepth(_)
\* The number of parentheses around x.
ParenDepth(x) == IF x.type = "ParenExpr" THEN 1 + ParenDepth(x.X) ELSE 0

RECURSIVE Innermost(_)
\* x without the parentheses around it.
Innermost(x) == IF x.type = "ParenExpr" THEN Innermost(x.X) ELSE x

\* C1: a call of writeExpression or writeExpressionMaybeParen terminates: its
\* loop runs once for each pair of parentheses around the expression and
\* leaves the innermost expression in x, and the call then returns (SQL or an
\* error) instead of running for ever or panicking.
C1_WriterTerminates ==
    /\ wit <= ParenDepth(wx0)
    /\ wpc \in {"loop", "done"}
    /\ wpc = "done" => wx = Innermost(wx0) /\ wret.st \in {"ok", "error"}

----------------------------------------------------------------------------
(* The subquery split rule *)

NoFuse == {"ProjectOperator", "SummarizeOperator", "AsOperator"}

\* The step is an iteration of the loop of splitQueries for a sort or a take.
SortOrTakeStep ==
    /\ pc = "split" /\ pc' = "split" /\ i' = i + 1
    /\ parsedExpr.Operators[i + 1].type \in {"SortOperator", "TakeOperator"}

\* The step attaches the operator to the subquery lastSubquery points to.
Fused(op) ==
    /\ lastSubquery' = lastSubquery
    /\ dst' = IF op.type = "SortOperator" THEN [dst EXCEPT ![lastSubquery].sort = op]
              ELSE [dst EXCEPT ![lastSubquery].take = op]

\* The step appends a subquery that holds only the operator and reads from
\* the subquery before it (from the table when it is the first).
StartedSubquery(op) ==
    /\ Len(dst') = Len(dst) + 1
    /\ SubSeq(dst', 1, Len(dst)) = dst
    /\ lastSubquery' = Len(dst')
    /\ dst'[Len(dst')] =
         [name |-> "__subquery" \o ToString(Len(dst)),
          sourceSQL |-> IF Len(dst) > 0 THEN Q \o dst[Len(dst)].name \o Q
                        ELSE Q \o parsedExpr.Source.Table.Name \o Q,
          op |-> Nil,
          sort |-> IF op.type = "SortOperator" THEN op ELSE Nil,
          take |-> IF op.type = "TakeOperator" THEN op ELSE Nil]

\* C2: a sort is fused into the previous subquery iff there is one, its
\* operator is none of project, summarize, as, and it has neither a sort nor a
\* take; a take is fused iff there is one, its operator is none of those and
\* it has no take; otherwise the operator starts a new subquery that reads
\* from the previous one.
C2_SplitRule ==
    [][SortOrTakeStep =>
         LET op == parsedExpr.Operators[i + 1]
             fuse == /\ lastSubquery # 0
                     /\ dst[lastSubquery].op.type \notin NoFuse
                     /\ dst[lastSubquery].take = Nil
                     /\ op.type = "SortOperator" => dst[lastSubquery].sort = Nil
         IN  IF fuse THEN Fused(op) ELSE StartedSubquery(op)]_vars

\* A take has been fused into a subquery that already had a sort, and a
\* further sort has started a subquery that reads from it.
C2_Witness ==
    /\ pc = "split"
    /\ Len(dst) = 2
    /\ dst[1].op.type = "WhereOperator" /\ dst[1].sort # Nil /\ dst[1].take # Nil
    /\ dst[2].op = Nil /\ dst[2].sort # Nil /\ dst[2].sourceSQL = Q \o dst[1].name \o Q

----------------------------------------------------------------------------
(* CTE names *)

\* C3: in the output of a successful compile no two CTEs of the WITH list
\* (all subqueries but the last) have the same name.
C3_UniqueCTENames ==
    (pc = "done" /\ ret.st = "ok") =>
        \A a, b \in 1..(Len(dst) - 1) : a # b => dst[a].name # dst[b].name

----------------------------------------------------------------------------
(* top as sort and take *)

ops == src.Operators

\* The source ends with a `top` operator.
EndsWithTop ==
    /\ Len(ops) > 0
    /\ ops[Len(ops)].type = "Region"
    /\ ops[Len(ops)].Keyword = "top"

\* P | top N by t rewritten as P | sort by t | take N: the sort gets the
\* tokens of the top after N, the take the number N.
SortThenTake ==
    LET top == ops[Len(ops)]
    IN  [src EXCEPT !.Operators =
            SubSeq(ops, 1, Len(ops) - 1)
            \o <<Region("sort", Tail(top.Tokens), top.End),
                 TakeOperator(BasicLit(top.Tokens[1].Kind, top.Tokens[1].Value))>>]

\* C4: lowering P | top N by t yields the same subqueries (names, source SQL,
\* operators, attached sort terms and row count) and the same SQL as lowering
\* P | sort by t | take N.
C4_TopIsSortThenTake ==
    (EndsWithTop /\ parsedExpr # Nil) =>
        /\ pc = "write" => dst = splitQueries(<<>>, Parse(SortThenTake).expr).dst
        /\ pc = "done" => ret = Compile(opts, SortThenTake)

\* A top after two operators has been compiled into a statement with a CTE.
C4_Witness ==
    /\ EndsWithTop /\ Len(ops) = 3
    /\ pc = "done" /\ ret.st = "ok" /\ k > 0
    /\ dst[Len(dst)].sort # Nil /\ dst[Len(dst)].take # Nil

----------------------------------------------------------------------------
(* A lone project or summarize *)

projectAB ==
    ProjectOperator(<<ProjectColumn(Ident("a", FALSE), Nil),
                      ProjectColumn(Ident("b", FALSE), Nil)>>)

summarizeByA ==
    SummarizeOperator(<<countCol>>, <<SummarizeColumn(Nil, id("a"), "a")>>)

\* Compile has returned SQL for a source whose only operator is a project or
\* a summarize.
LoneProjection ==
    /\ pc = "done" /\ ret.st = "ok"
    /\ Len(ops) = 1
    /\ ops[1].type \in {"ProjectOperator", "SummarizeOperator"}

\* C5: a pipeline whose only operator is a project or a summarize is emitted
\* as one CTE "__subquery0" holding the operator's SELECT over the table,
\* followed by SELECT * FROM "__subquery0";
C5_LoneProjectionIsCTE ==
    LoneProjection =>
        /\ k = 1 /\ Len(dst) = 2
        /\ dst[1].name = "__subquery0" /\ dst[1].op = ops[1]
        /\ dst[2].op = Nil /\ dst[2].sourceSQL = "\"__subquery0\""
        /\ ops[1] = projectAB =>
             ret.out = "WITH \"__subquery0\" AS (SELECT \"a\" AS \"a\", \"b\" AS \"b\" FROM \"T\")\nSELECT * FROM \"__subquery0\";"

\* C5, amended: a pipeline whose only operator is a project or a summarize is
\* emitted with no CTE, as the operator's SELECT over the table.
C5_LoneProjectionIsStatement ==
    LoneProjection =>
        /\ k = 0 /\ Len(dst) = 1
        /\ dst[1].name = "__subquery0" /\ dst[1].op = ops[1]
        /\ dst[1].sourceSQL = "\"T\""
        /\ ops[1] = projectAB =>
             ret.out = "SELECT \"a\" AS \"a\", \"b\" AS \"b\" FROM \"T\";"
        /\ ops[1] = summarizeByA =>
             ret.out = "SELECT \"a\" AS \"a\", count() AS \"n\" FROM \"T\" GROUP BY \"a\";"

\* T | project a, b has been compiled.
C5_Witness == LoneProjection /\ ops[1] = projectAB

----------------------------------------------------------------------------
(* A join applied to a table *)

joinYOnKey == JoinOperator(Nil, TabularExpr(table("Y"), <<>>), <<id("Key")>>)

\* Compile has returned SQL for T | join (Y) on Key.
LoneJoin == pc = "done" /\ ret.st = "ok" /\ ops = <<joinYOnKey>>

\* C6: X | join (Y) on Key is emitted with two CTEs, one for X and one for Y,
\* and a join subquery whose FROM clause is (SELECT DISTINCT * FROM <CTE of
\* X>) AS "$left" JOIN <CTE of Y> AS "$right" ON "$left"."Key" = "$right"."Key".
C6_JoinOfTwoCTEs ==
    LoneJoin =>
        /\ k = 2 /\ Len(dst) = 3
        /\ dst[1].sourceSQL = "\"T\"" /\ dst[2].sourceSQL = "\"Y\""
        /\ dst[3].sourceSQL =
             "(SELECT DISTINCT * FROM \"" \o dst[1].name \o "\") AS \"$left\" JOIN \""
             \o dst[2].name \o "\" AS \"$right\" ON \"$left\".\"Key\" = \"$right\".\"Key\""

\* C6, amended: X | join (Y) on Key is emitted with one CTE, for Y, and a
\* join subquery whose FROM clause is (SELECT DISTINCT * FROM "X") AS "$left"
\* JOIN <CTE of Y> AS "$right" ON "$left"."Key" = "$right"."Key".
C6_JoinOfTableAndCTE ==
    LoneJoin =>
        /\ k = 1 /\ Len(dst) = 2
        /\ dst[1] = [name |-> "__subquery0", sourceSQL |-> "\"Y\"", op |-> Nil,
                     sort |-> Nil, take |-> Nil]
        /\ dst[2].name = "__subquery1" /\ dst[2].op = Nil
        /\ dst[2].sourceSQL =
             "(SELECT DISTINCT * FROM \"T\") AS \"$left\" JOIN \"__subquery0\" AS \"$right\" ON \"$left\".\"Key\" = \"$right\".\"Key\""
        /\ ret.out =
             "WITH \"__subquery0\" AS (SELECT * FROM \"Y\")\nSELECT * FROM (SELECT DISTINCT * FROM \"T\") AS \"$left\" JOIN \"__subquery0\" AS \"$right\" ON \"$left\".\"Key\" = \"$right\".\"Key\";"

\* T | join (Y) on Key has been compiled.
C6_Witness == LoneJoin /\ Len(dst) = 2

----------------------------------------------------------------------------
(* Sort terms without a direction *)

\* The source is one `sort by` or `top` of terms written without asc, desc or
\* nulls, and has been parsed.
PlainSortParsed ==
    /\ Len(ops) = 1 /\ ops[1].type = "Region"
    /\ \A j \in 1..Len(ops[1].Tokens) :
           ops[1].Tokens[j].Value \notin {"asc", "desc", "nulls"}
    /\ parsedExpr # Nil

\* The sort terms of the parsed operator.
ParsedTerms ==
    IF parsedExpr.Operators[1].type = "SortOperator"
    THEN parsedExpr.Operators[1].Terms
    ELSE <<parsedExpr.Operators[1].Col>>

\* The parser recorded no direction and no nulls placement.
RecordedPlain(term) ==
    /\ ~term.Asc /\ ~term.NullsFirst
    /\ ~IsValid(term.AscDescSpan) /\ ~IsValid(term.NullsSpan)

RECURSIVE OrderBy(_, _, _)
\* The ORDER BY list of terms[j..], each followed by suffix.
OrderBy(terms, j, suffix) ==
    IF j > Len(terms) THEN ""
    ELSE writeExpression(compileContext(opts), terms[j].X).out \o suffix
         \o (IF j < Len(terms) THEN ", " ELSE "")
         \o OrderBy(terms, j + 1, suffix)

Limit == IF dst[1].take # Nil THEN " LIMIT " \o dst[1].take.RowCount.Value ELSE ""

\* C7: a sort term written with neither asc/desc nor a nulls clause is
\* recorded by the parser with no direction and no nulls placement, and is
\* emitted as ORDER BY <expr> ASC NULLS FIRST.
C7_PlainTermAscNullsFirst ==
    PlainSortParsed =>
        /\ \A j \in 1..Len(ParsedTerms) : RecordedPlain(ParsedTerms[j])
        /\ (pc = "done" /\ ret.st = "ok") =>
             ret.out = "SELECT * FROM \"T\" ORDER BY "
                       \o OrderBy(ParsedTerms, 1, " ASC NULLS FIRST") \o Limit \o ";"

\* C7, amended: such a term is recorded with no direction and no nulls
\* placement, and is emitted as ORDER BY <expr> DESC NULLS LAST.
C7_PlainTermDescNullsLast ==
    PlainSortParsed =>
        /\ \A j \in 1..Len(ParsedTerms) : RecordedPlain(ParsedTerms[j])
        /\ (pc = "done" /\ ret.st = "ok") =>
             ret.out = "SELECT * FROM \"T\" ORDER BY "
                       \o OrderBy(ParsedTerms, 1, " DESC NULLS LAST") \o Limit \o ";"

\* T | sort by a has been compiled.
C7_Witness ==
    /\ PlainSortParsed /\ pc = "done" /\ ret.st = "ok"
    /\ ops[1].Keyword = "sort" /\ Len(ops[1].Tokens) = 2

----------------------------------------------------------------------------
(* Equality, join aliases and parameters *)

RECURSIVE IdentsOf(_)
RECURSIVE IdentsOfAll(_, _)
\* The identifier parts that occur in expression x as (parts of) references;
\* the name of a called function is not one.
IdentsOf(x) ==
    CASE x.type = "QualifiedIdent" -> {x.Parts[j] : j \in 1..Len(x.Parts)}
      [] x.type \in {"UnaryExpr", "ParenExpr"} -> IdentsOf(x.X)
      [] x.type = "BinaryExpr" -> IdentsOf(x.X) \cup IdentsOf(x.Y)
      [] x.type = "InExpr" -> IdentsOf(x.X) \cup IdentsOfAll(x.Vals, 1)
      [] x.type = "IndexExpr" -> IdentsOf(x.X) \cup IdentsOf(x.Index)
      [] x.type = "CallExpr" -> IdentsOfAll(x.Args, 1)
      [] OTHER -> {}

IdentsOfAll(xs, j) ==
    IF j > Len(xs) THEN {} ELSE IdentsOf(xs[j]) \cup IdentsOfAll(xs, j + 1)

\* x has a part named alias (backtick-quoted or not).
Names(x, alias) == \E part \in IdentsOf(x) : part.Name = alias

\* x references the join alias: it has an unquoted part of that name.
References(x, alias) == \E part \in IdentsOf(x) : part.Name = alias /\ ~part.Quoted

\* A call of writeExpression for an `==` or `!=` has returned SQL.
EqualityWritten ==
    /\ wpc = "done" /\ wret.st = "ok"
    /\ wfn = "writeExpression"
    /\ wx0.type = "BinaryExpr" /\ wx0.Op \in {"==", "!="}

\* The operands as written.
WX == writeExpressionMaybeParen(wctx, wx0.X).out

WY == writeExpressionMaybeParen(wctx, wx0.Y).out

\* What is written for an `==` or `!=`, bare saying whether an `==` in a join
\* condition goes without coalesce.
EqualitySQL(bare) ==
    IF wx0.Op = "!=" THEN "coalesce(" \o WX \o " <> " \o WY \o ", FALSE)"
    ELSE IF wctx.mode = joinExprMode /\ bare THEN WX \o " = " \o WY
    ELSE "coalesce(" \o WX \o " = " \o WY \o ", FALSE)"

\* C8: x == y is emitted as coalesce(x = y, FALSE) and x != y as coalesce(x <>
\* y, FALSE); in a join ON clause the coalesce around == is omitted exactly
\* when one operand references $left and the other operand references $right.
C8_BareWhenAcross ==
    EqualityWritten =>
        wret.out = EqualitySQL(
            \/ References(wx0.X, "$left") /\ References(wx0.Y, "$right")
            \/ References(wx0.X, "$right") /\ References(wx0.Y, "$left"))

\* C8, amended: in a join ON clause the coalesce around == is omitted exactly
\* when a part named $left occurs in either operand and a part named $right
\* occurs in either operand, quoted or not.
C8_BareWhenBothNamed ==
    EqualityWritten =>
        wret.out = EqualitySQL(
            /\ Names(wx0.X, "$left") \/ Names(wx0.Y, "$left")
            /\ Names(wx0.X, "$right") \/ Names(wx0.Y, "$right"))

\* $left.a + $right.b == 1 has been written for a join ON clause, bare.
C8_Witness ==
    /\ EqualityWritten /\ wctx.mode = joinExprMode
    /\ wx0 = Eq(BinaryExpr(path("$left", "a"), "+", path("$right", "b")), num("1"))
    /\ wret.out = "(\"$left\".\"a\" + \"$right\".\"b\") = 1"

\* The source is T | <operator holding x at site>.
HoldsAt(site, x) == src = source("T", <<siteOperator(site, x)>>)

\* C9: an unquoted identifier part named $left or $right in an expression
\* outside a join's ON clause makes compile return a compile error and no
\* SQL; inside a join's ON clause it is accepted.
C9_JoinAliasOnlyInOn ==
    \A site \in Sites, x \in SiteExprs :
        (HoldsAt(site, x) /\ (References(x, "$left") \/ References(x, "$right"))) =>
            /\ pc \notin {"hang", "panic"}
            /\ pc = "done" => IF site = "on" THEN ret.st = "ok"
                              ELSE ret.st = "error" /\ ret.out = ""

RECURSIVE Substituted(_)
RECURSIVE SubstitutedAll(_, _)
\* x with q for every unquoted single-part identifier p used as an expression.
Substituted(x) ==
    CASE x.type = "QualifiedIdent" ->
           IF Len(x.Parts) = 1 /\ x.Parts[1].Name = "p" /\ ~x.Parts[1].Quoted
           THEN id("q") ELSE x
      [] x.type \in {"UnaryExpr", "ParenExpr"} -> [x EXCEPT !.X = Substituted(@)]
      [] x.type = "BinaryExpr" ->
           [x EXCEPT !.X = Substituted(@), !.Y = Substituted(@)]
      [] x.type = "InExpr" ->
           [x EXCEPT !.X = Substituted(@), !.Vals = SubstitutedAll(@, 1)]
      [] x.type = "IndexExpr" ->
           [x EXCEPT !.X = Substituted(@), !.Index = Substituted(@)]
      [] x.type = "CallExpr" -> [x EXCEPT !.Args = SubstitutedAll(@, 1)]
      [] OTHER -> x

SubstitutedAll(xs, j) ==
    IF j > Len(xs) THEN <<>>
    ELSE <<Substituted(xs[j])>> \o SubstitutedAll(xs, j + 1)

\* C10: with the parameter map {p: "q" in double quotes}, every unquoted
\* single-part identifier p is replaced by the snippet wherever it occurs as
\* an expression, join ON conditions included, and no quoted or multi-part
\* identifier is: the SQL is that of the statement with q written for those p
\* (a bare `on p`, which stands for $left.p == $right.p, set aside).
C10_ParametersEverywhere ==
    \A site \in Sites, x \in SiteExprs :
        ( /\ HoldsAt(site, x) /\ opts # Nil
          /\ ~(site = "on" /\ x = id("p"))
          /\ pc = "done" /\ ret.st = "ok" ) =>
            ret = Compile(Nil, source("T", <<siteOperator(site, Substituted(x))>>))

----------------------------------------------------------------------------
(* The scanner as a state machine: query is Scan's argument, spos and     *)
(* slast the scanner's fields, tokens the slice built so far.  One action *)
(* for each case of the switch in Scan's loop, one for its break.         *)

\* The queries scanned are made of at most MaxPieces of these pieces.
MaxPieces == 2

Pieces ==
    {<<"a">>, <<"o", "r">>, <<"_", "1">>, <<"0", "0", "7">>, <<"1", ".", "5", "e">>,
     <<"e", "5">>, <<"0", "x">>, <<"0", "x", "f">>, <<".">>, <<",">>, <<" ">>,
     <<"\n">>, <<"'", "s", "\\", "n", "'">>, <<"\"", "s">>, <<Backquote, "q", Backquote>>,
     <<Backquote>>, <<"=">>, <<"!">>, <<"~">>, <<"/">>, <<"<">>, <<">">>, <<"#">>,
     <<"+">>, <<"[">>}

RECURSIVE Queries(_)
Queries(n) ==
    IF n = 0 THEN {<<>>}
    ELSE Queries(n - 1) \cup {q \o p : q \in Queries(n - 1), p \in Pieces}

ScanInputs == Queries(MaxPieces)

\* The scanner of the state.
scannerNow == [s |-> query, pos |-> spos, last |-> slast]

\* The case of the character the loop is about to read.
atCase(case) == spc = "scan" /\ scanNext(scannerNow).ok /\ scanCase(scanNext(scannerNow).c) = case

\* The loop's turn, taken: its tokens are appended, the scanner moves.
taken(t) ==
    /\ tokens' = tokens \o t.toks
    /\ spos' = t.sc.pos
    /\ slast' = t.sc.last
    /\ UNCHANGED <<query, spc>>

ScanInit ==
    /\ noCompile
    /\ noWrite
    /\ noExtra
    /\ noParse
    /\ noSuggest
    /\ query \in ScanInputs
    /\ spos = 0
    /\ slast = 0
    /\ tokens = <<>>
    /\ spc = "scan"

ScanSpace ==
    /\ atCase("space")
    /\ taken(scanTurn(scannerNow))
    /\ UNCHANGED <<cvars, wvars, xvars, pvars, gvars>>

ScanIdent ==
    /\ atCase("ident")
    /\ taken(scanTurn(scannerNow))
    /\ UNCHANGED <<cvars, wvars, xvars, pvars, gvars>>

ScanNumberOrDot ==
    /\ atCase("number")
    /\ taken(scanTurn(scannerNow))
    /\ UNCHANGED <<cvars, wvars, xvars, pvars, gvars>>

ScanString ==
    /\ atCase("string")
    /\ taken(scanTurn(scannerNow))
    /\ UNCHANGED <<cvars, wvars, xvars, pvars, gvars>>

ScanQuotedIdent ==
    /\ atCase("quotedIdent")
    /\ taken(scanTurn(scannerNow))
    /\ UNCHANGED <<cvars, wvars, xvars, pvars, gvars>>

ScanPunct ==
    /\ atCase("punct")
    /\ taken(scanTurn(scannerNow))
    /\ UNCHANGED <<cvars, wvars, xvars, pvars, gvars>>

ScanAssign ==
    /\ atCase("assign")
    /\ taken(scanTurn(scannerNow))
    /\ UNCHANGED <<cvars, wvars, xvars, pvars, gvars>>

ScanBang ==
    /\ atCase("bang")
    /\ taken(scanTurn(scannerNow))
    /\ UNCHANGED <<cvars, wvars, xvars, pvars, gvars>>

ScanSlash ==
    /\ atCase("slash")
    /\ taken(scanTurn(scannerNow))
    /\ UNCHANGED <<cvars, wvars, xvars, pvars, gvars>>

ScanLess ==
    /\ atCase("less")
    /\ taken(scanTurn(scannerNow))
    /\ UNCHANGED <<cvars, wvars, xvars, pvars, gvars>>

ScanGreater ==
    /\ atCase("greater")
    /\ taken(scanTurn(scannerNow))
    /\ UNCHANGED <<cvars, wvars, xvars, pvars, gvars>>

ScanUnrecognized ==
    /\ atCase("unrecognized")
    /\ taken(scanTurn(scannerNow))
    /\ UNCHANGED <<cvars, wvars, xvars, pvars, gvars>>

\* The end of the query: the loop breaks and Scan returns tokens.
ScanBreak ==
    /\ spc = "scan"
    /\ ~scanNext(scannerNow).ok
    /\ spc' = "done"
    /\ UNCHANGED <<query, spos, slast, tokens, cvars, wvars, xvars, pvars, gvars>>

ScanNext ==
    \/ ScanSpace
    \/ ScanIdent
    \/ ScanNumberOrDot
    \/ ScanString
    \/ ScanQuotedIdent
    \/ ScanPunct
    \/ ScanAssign
    \/ ScanBang
    \/ ScanSlash
    \/ ScanLess
    \/ ScanGreater
    \/ ScanUnrecognized
    \/ ScanBreak

ScanSpec == ScanInit /\ [][ScanNext]_vars

\* C16: every token Scan produces has a valid span, 0 <= Start <= End <=
\* len(query), and the tokens come in source order without overlapping: each
\* starts at or after the end of the one before it.
C16_SpansValidAndOrdered ==
    /\ \A n \in DOMAIN tokens :
          /\ IsValid(tokens[n].Span)
          /\ 0 <= tokens[n].Span.Start
          /\ tokens[n].Span.Start <= tokens[n].Span.End
          /\ tokens[n].Span.End <= Len(query)
    /\ \A n \in DOMAIN tokens :
          n > 1 => tokens[n - 1].Span.End <= tokens[n].Span.Start

C16_Witness ==
    /\ spc = "done"
    /\ Len(tokens) = 2
    /\ tokens[1].Kind = "TokenNumber"
    /\ tokens[1].Span = newSpan(0, 3)
    /\ tokens[2].Kind = "TokenAssign"
    /\ tokens[2].Span = newSpan(3, Len(query))

\* Token n is the error token of an unrecognized character.
unrecognizedAt(n) ==
    /\ tokens[n].Kind = "TokenError"
    /\ \/ tokens[n].Value = "unrecognized token '!'"
       \/ \E c \in {"#", "~"} : tokens[n].Value = "unrecognized character \"" \o c \o "\""

\* The tokens of ts, their spans moved by d.
shifted(ts, d) ==
    [j \in DOMAIN ts |->
        [ts[j] EXCEPT !.Span = newSpan(ts[j].Span.Start + d, ts[j].Span.End + d)]]

\* C17: after a lexing error on an unrecognized character, an exclamation
\* mark not followed by = or ~ included, the error token covers that one
\* character and scanning resumes right after it: the tokens that follow are
\* those of the rest of the query.
C17_ErrorCoversOneCharacter ==
    spc = "done" =>
        \A n \in DOMAIN tokens :
            unrecognizedAt(n) =>
                /\ tokens[n].Span.End = tokens[n].Span.Start + 1
                /\ SubSeq(tokens, n + 1, Len(tokens))
                       = shifted(Scan(SubSeq(query, tokens[n].Span.Start + 2, Len(query))),
                                 tokens[n].Span.Start + 1)


----------------------------------------------------------------------------
(* Parse, one iteration of the loop of tabularExpr at a time *)

MaxParseOps == 2

\* The operators of the queries, each as the characters from its pipe on.
OperatorTexts ==
    {\* ` | count`
     <<" ", "|", " ", "c", "o", "u", "n", "t">>,
     \* ` | where a[1`
     <<" ", "|", " ", "w", "h", "e", "r", "e", " ", "a", "[", "1">>,
     \* ` | where a[1]`
     <<" ", "|", " ", "w", "h", "e", "r", "e", " ", "a", "[", "1", "]">>,
     \* ` | where a[1][2]`
     <<" ", "|", " ", "w", "h", "e", "r", "e", " ", "a", "[", "1", "]", "[", "2", "]">>,
     \* ` | where (a`
     <<" ", "|", " ", "w", "h", "e", "r", "e", " ", "(", "a">>,
     \* ` | extend a b`
     <<" ", "|", " ", "e", "x", "t", "e", "n", "d", " ", "a", " ", "b">>,
     \* ` | extend a = 1`
     <<" ", "|", " ", "e", "x", "t", "e", "n", "d", " ", "a", " ", "=", " ", "1">>,
     \* ` | summarize count() by b`
     <<" ", "|", " ", "s", "u", "m", "m", "a", "r", "i", "z", "e", " ", "c", "o",
       "u", "n", "t", "(", ")", " ", "b", "y", " ", "b">>,
     \* ` | summarize n = count() by k = b`
     <<" ", "|", " ", "s", "u", "m", "m", "a", "r", "i", "z", "e", " ", "n", " ",
       "=", " ", "c", "o", "u", "n", "t", "(", ")", " ", "b", "y", " ", "k", " ",
       "=", " ", "b">>,
     \* ` | join (Y) on k`
     <<" ", "|", " ", "j", "o", "i", "n", " ", "(", "Y", ")", " ", "o", "n", " ", "k">>,
     \* ` | join`
     <<" ", "|", " ", "j", "o", "i", "n">>,
     \* ` | project a, b = 1`
     <<" ", "|", " ", "p", "r", "o", "j", "e", "c", "t", " ", "a", ",", " ", "b",
       " ", "=", " ", "1">>,
     \* ` | sort by a desc`
     <<" ", "|", " ", "s", "o", "r", "t", " ", "b", "y", " ", "a", " ", "d", "e",
       "s", "c">>,
     \* ` | top 1 by a`
     <<" ", "|", " ", "t", "o", "p", " ", "1", " ", "b", "y", " ", "a">>,
     \* ` | take 007`
     <<" ", "|", " ", "t", "a", "k", "e", " ", "0", "0", "7">>,
     \* ` | as q`
     <<" ", "|", " ", "a", "s", " ", "q">>,
     \* ` | foo 1`
     <<" ", "|", " ", "f", "o", "o", " ", "1">>,
     \* ` |`
     <<" ", "|">>,
     \* ` | 1`
     <<" ", "|", " ", "1">>}

RECURSIVE Piped(_)
\* A table name, or nothing, followed by up to n operators.
Piped(n) ==
    IF n = 0 THEN {<<"T">>, <<>>}
    ELSE Piped(n - 1) \cup {s \o o : s \in Piped(n - 1), o \in OperatorTexts}

\* The binary operators, as written and as the lexer names them.
BinaryOperators ==
    <<[text |-> <<"*">>, kind |-> "TokenStar"],
      [text |-> <<"/">>, kind |-> "TokenSlash"],
      [text |-> <<"%">>, kind |-> "TokenMod"],
      [text |-> <<"+">>, kind |-> "TokenPlus"],
      [text |-> <<"-">>, kind |-> "TokenMinus"],
      [text |-> <<"=", "=">>, kind |-> "TokenEq"],
      [text |-> <<"!", "=">>, kind |-> "TokenNE"],
      [text |-> <<"<">>, kind |-> "TokenLT"],
      [text |-> <<"<", "=">>, kind |-> "TokenLE"],
      [text |-> <<">">>, kind |-> "TokenGT"],
      [text |-> <<">", "=">>, kind |-> "TokenGE"],
      [text |-> <<"=", "~">>, kind |-> "TokenCaseInsensitiveEq"],
      [text |-> <<"!", "~">>, kind |-> "TokenCaseInsensitiveNE"],
      [text |-> <<"i", "n">>, kind |-> "TokenIn"],
      [text |-> <<"a", "n", "d">>, kind |-> "TokenAnd"],
      [text |-> <<"o", "r">>, kind |-> "TokenOr"]>>

whereText == <<"T", " ", "|", " ", "w", "h", "e", "r", "e", " ">>

\* An operand as written: signed with a unary operator, or as the list that
\* follows `in`.
operandText(c, sign, op) ==
    IF op # Nil /\ op.kind = "TokenIn" THEN <<"(", c, ")">>
    ELSE IF sign THEN <<"-", c>> ELSE <<c>>

\* `T | where a o1 b o2 c`; with u = 1 the first operand is written `-a`, with
\* u = 2 the second `-b`.
exprQuery(o1, o2, u) ==
    ((((whereText \o operandText("a", u = 1, Nil)) \o <<" ">>) \o o1.text)
         \o ((<<" ">> \o operandText("b", u = 2, o1)) \o <<" ">>))
        \o ((o2.text \o <<" ">>) \o operandText("c", FALSE, o2))

ExprQueries ==
    {exprQuery(BinaryOperators[m], BinaryOperators[n], u) :
        m \in DOMAIN BinaryOperators, n \in DOMAIN BinaryOperators, u \in 0..2}

\* Integers below 2^63, in canonical decimal form.
CanonicalIntegers ==
    {<<"0">>,
     <<"1">>,
     <<"7">>,
     <<"1", "0">>,
     <<"4", "2", "9", "4", "9", "6", "7", "2", "9", "6">>,
     <<"9", "2", "2", "3", "3", "7", "2", "0", "3", "6", "8", "5", "4", "7", "7",
       "5", "8", "0", "7">>}

LeadingZeros == {<<>>, <<"0">>, <<"0", "0">>}

takeText == <<"T", " ", "|", " ", "t", "a", "k", "e", " ">>

\* `T | take ` and the integer n written after the zeros z.
takeQuery(z, n) == (takeText \o z) \o n

TakeQueries == {takeQuery(z, n) : z \in LeadingZeros, n \in CanonicalIntegers}

ParseInputs == (Piped(MaxParseOps) \cup ExprQueries) \cup TakeQueries

\* The parser of the call, and the state of the loop of tabularExpr.
parserNow == [tokens |-> tokens, pos |-> ppos, srcLen |-> Len(query)]

tabularNow ==
    tabular(ast, finalError, parserNow, astSpan,
            IF tokens = <<>> THEN -1 ELSE tokens[1].Span.Start, astNodes, FALSE)

\* The call moves to the loop state t, and returns if the loop has.
turned(t) ==
    /\ ppos' = t.p.pos
    /\ ast' = t.node
    /\ astSpan' = t.span
    /\ astNodes' = t.nodes
    /\ finalError' = t.err
    /\ ppc' = IF t.done THEN "done" ELSE "loop"
    /\ pret' = IF t.done THEN parseErrorOf(t) ELSE Nil

ParseInit ==
    /\ noCompile
    /\ noWrite
    /\ noExtra
    /\ noSuggest
    /\ query \in ParseInputs
    /\ spos = 0 /\ slast = 0 /\ tokens = <<>> /\ spc = "idle"
    /\ ppos = 0 /\ ast = Nil /\ astSpan = nullSpan /\ astNodes = <<>>
    /\ finalError = Nil /\ ppc = "start" /\ pret = Nil

\* Parse up to the loop of tabularExpr: Scan, then the table name.
ParseSource ==
    /\ ppc = "start"
    /\ tokens' = Scan(query)
    /\ turned(tabularSource(newParser(query), ident(newParser(query))))
    /\ UNCHANGED <<query, spos, slast, spc, cvars, wvars, xvars, gvars>>

\* One iteration of the loop of tabularExpr, for the operator after a pipe.
ParseOperator ==
    /\ ppc = "loop"
    /\ turnCase(tabularNow) # "return"
    /\ turned(operatorTurn(tabularNow))
    /\ UNCHANGED <<svars, cvars, wvars, xvars, gvars>>

\* The next token is not a pipe: tabularExpr returns, and Parse after it.
ParseReturn ==
    /\ ppc = "loop"
    /\ turnCase(tabularNow) = "return"
    /\ turned(tabularReturn(tabularNow, next(parserNow)))
    /\ UNCHANGED <<svars, cvars, wvars, xvars, gvars>>

ParseNext ==
    \/ ParseSource
    \/ ParseOperator
    \/ ParseReturn

ParseSpec == ParseInit /\ [][ParseNext]_vars

----------------------------------------------------------------------------
(* Claims about Parse *)

\* The elements of a sequence.
Elements(seq) == {seq[n] : n \in DOMAIN seq}

\* The columns of the extend operators of the expression e.
ExtendColumns(e) ==
    UNION {Elements(op.Cols) :
              op \in {o \in Elements(e.Operators) : o.type = "ExtendOperator"}}

\* C11: an extend column without an assignment is a parse error: when Parse
\* has returned no error, every extend column of the expression it returned
\* has an assignment span and an expression.
C11_ExtendColumnsAssigned ==
    (ppc = "done" /\ pret = Nil /\ ast # Nil)
        => \A col \in ExtendColumns(ast) : IsValid(col.Assign) /\ col.X # Nil

isPipe(tok) == tok.Kind = "TokenPipe"

\* The spans of the pipes of the query, none of which is inside the
\* right-hand side of a join in the queries of ParseInputs.
PipeSpans == [m \in DOMAIN SelectSeq(tokens, isPipe) |-> SelectSeq(tokens, isPipe)[m].Span]

\* C12: an error inside one operator is confined to it: when Parse has
\* returned an expression, with or without an error, each pipe of the query
\* has its own operator in the expression, in the order of the source.
C12_OperatorPerPipe ==
    (ppc = "done" /\ ast # Nil)
        => [m \in DOMAIN ast.Operators |-> ast.Operators[m].Pipe] = PipeSpans

\* `T | where a[1]` for n = 1, `T | where a[1][2]` for n = 2.
indexQuery(n) ==
    whereText \o (IF n = 1 THEN <<"a", "[", "1", "]">>
                  ELSE <<"a", "[", "1", "]", "[", "2", "]">>)

\* a indexed n times, each index applied to the result of those before it.
IndexChain(n) ==
    IF n = 1 THEN IndexExpr(id("a"), num("1"))
    ELSE IndexExpr(IndexExpr(id("a"), num("1")), num("2"))

\* C13: index expressions chain: a primary expression followed by n >= 1
\* bracketed indexes parses without error into n left-nested IndexExpr nodes.
C13_IndexesChain ==
    \A n \in 1..2 :
        (ppc = "done" /\ query = indexQuery(n))
            => pret = Nil /\ ast.Operators[1].Predicate = IndexChain(n)

\* The precedence levels as the specification lists them, highest first.
Level(op) ==
    IF op.kind \in {"TokenStar", "TokenSlash", "TokenMod"} THEN 5
    ELSE IF op.kind \in {"TokenPlus", "TokenMinus"} THEN 4
    ELSE IF op.kind = "TokenAnd" THEN 2
    ELSE IF op.kind = "TokenOr" THEN 1
    ELSE 3

\* The expression of x op y; after `in`, y is the one value of the list.
Apply(x, op, y) ==
    IF op.kind = "TokenIn" THEN InExpr(x, <<y>>) ELSE BinaryExpr(x, join(op.text), y)

\* The operand named c, signed or not; the value of a list after `in` is
\* written without a sign.
Operand(c, sign, op) ==
    IF sign /\ (op = Nil \/ op.kind # "TokenIn") THEN UnaryExpr("-", id(c)) ELSE id(c)

\* What `a o1 b o2 c` means: o2 takes b when it is higher than o1, unless b
\* is the list of `in`, which its parentheses close; otherwise o1 does.
Reference(o1, o2, u) ==
    IF o1.kind # "TokenIn" /\ Level(o2) > Level(o1)
    THEN Apply(Operand("a", u = 1, Nil), o1,
               Apply(Operand("b", u = 2, o1), o2, Operand("c", FALSE, o2)))
    ELSE Apply(Apply(Operand("a", u = 1, Nil), o1, Operand("b", u = 2, o1)), o2,
               Operand("c", FALSE, o2))

C15_SpanWithinTokensRead ==
    ppc = "done"
        => \A n \in DOMAIN astNodes :
               IsValid(astNodes[n].span)
                   => /\ astNodes[n].lo <= astNodes[n].span.Start
                      /\ astNodes[n].span.End <= astNodes[n].hi

\* 2^63 - 1, the largest integer of the claim.
MaxInt63 ==
    <<"9", "2", "2", "3", "3", "7", "2", "0", "3", "6", "8", "5", "4", "7", "7", "5",
      "8", "0", "7">>

\* C18: an integer below 2^63 written with any number of leading zeros is
\* scanned as one number token whose text is its canonical decimal form, and
\* `T | take <literal>` parses without error to a take operator whose row
\* count has that integer as its value.
C18_TakeIntegerLiteral ==
    (ppc = "done" /\ query \in TakeQueries)
        => \A z \in LeadingZeros, n \in CanonicalIntegers :
               query = takeQuery(z, n)
                   => /\ pret = Nil
                      /\ Len(tokens) = 4
                      /\ tokens[4] = Token("TokenNumber", join(n),
                                           newSpan(Len(takeText), Len(query)))
                      /\ Len(ast.Operators) = 1
                      /\ ast.Operators[1].type = "TakeOperator"
                      /\ ast.Operators[1].RowCount = num(join(n))
                      /\ Uint64(ast.Operators[1].RowCount) = n

\* `T | take 009223372036854775807` has been parsed: the row count is 2^63 - 1.
C18_Witness ==
    /\ ppc = "done"
    /\ query = takeQuery(<<"0", "0">>, MaxInt63)
    /\ pret = Nil
    /\ MaxInt63 \in CanonicalIntegers
    /\ Uint64(ast.Operators[1].RowCount) = MaxInt63

----------------------------------------------------------------------------
(* Completion: SuggestCompletions, suggestTabularExpr and                  *)
(* determineColumnsInScope.  A completion list is held as the completer    *)
(* that made it, the span it replaces and the names it draws from; the     *)
(* filter of the names by the text of the prefix is left out.              *)

\* Span.Overlaps
Overlaps(span, span2) ==
    /\ IsValid(span)
    /\ IsValid(span2)
    /\ IsValid(newSpan(IF span.Start > span2.Start THEN span.Start ELSE span2.Start,
                       IF span.End < span2.End THEN span.End ELSE span2.End))

RECURSIVE BinarySearchUpTo(_, _, _, _)
\* A search that also passes over the elements equal to target.
BinarySearchUpTo(starts, target, lo, hi) ==
    IF lo >= hi THEN lo
    ELSE IF starts[((lo + hi) \div 2) + 1] <= target
    THEN BinarySearchUpTo(starts, target, ((lo + hi) \div 2) + 1, hi)
    ELSE BinarySearchUpTo(starts, target, lo, (lo + hi) \div 2)

RECURSIVE BinarySearch(_, _, _, _)
\* slices.BinarySearchFunc comparing the elements, given as their starts,
\* with target: the loop from i and j on (indexes from 0).
BinarySearch(starts, target, lo, hi) ==
    IF lo >= hi THEN lo
    ELSE IF starts[((lo + hi) \div 2) + 1] < target
    THEN BinarySearch(starts, target, ((lo + hi) \div 2) + 1, hi)
    ELSE BinarySearch(starts, target, lo, (lo + hi) \div 2)

\* spanBefore, on the starts of the spans: an index from 0, -1 for none.
spanBefore(starts, pos) == BinarySearch(starts, pos, 0, Len(starts)) - 1

tokenStarts(toks) == [j \in DOMAIN toks |-> toks[j].Span.Start]

nodeStarts(xs) == [j \in DOMAIN xs |-> xs[j].span.Start]

isCompletableToken(kind) ==
    kind \in {"TokenIdentifier", "TokenQuotedIdentifier", "TokenAnd", "TokenOr",
              "TokenIn", "TokenBy"}

\* completionPrefix, given the index j that spanBefore returned.
completionPrefixAt(toks, pos, j) ==
    IF j < 0 THEN newSpan(pos, pos)
    ELSE IF \/ ~Overlaps(toks[j + 1].Span, newSpan(pos, pos))
            \/ ~isCompletableToken(toks[j + 1].Kind)
    THEN newSpan(pos, pos)
    ELSE newSpan(toks[j + 1].Span.Start
                     + (IF toks[j + 1].Kind = "TokenQuotedIdentifier" THEN 1 ELSE 0),
                 pos)

completionPrefix(toks, pos) ==
    IF Len(toks) = 0 THEN newSpan(pos, pos)
    ELSE completionPrefixAt(toks, pos, spanBefore(tokenStarts(toks), pos))

\* A list of completions.
completions(from, span, names) ==
    [type |-> "completions", from |-> from, Span |-> span, names |-> names]

\* A nil pointer was dereferenced: the call panics.
crashed == [type |-> "panic"]

completeTableNames(ctx, span) == completions("tables", span, DOMAIN ctx)

completeOperators(span, includePipe) ==
    completions("operators", IF includePipe THEN newSpan(span.End, span.End) ELSE span,
                {})

\* completeScope: no let statement is in scope of the queries modelled.
completeScope(span) == completions("scope", span, {})

completeExpression(span, cols) ==
    completions("expression", span, {cols[j] : j \in DOMAIN cols})

\* determineColumnsInScope returns its columns, or panics.
scoped(cols) == [columns |-> cols, panic |-> FALSE]

scopePanic == [columns |-> <<>>, panic |-> TRUE]

\* The names of columns, read as col.Name.Name: a nil Name panics.
columnNames(cols) ==
    IF \E j \in DOMAIN cols : cols[j].Name = Nil THEN scopePanic
    ELSE scoped([j \in DOMAIN cols |-> cols[j].Name.Name])

\* a followed by b, each what determineColumnsInScope or columnNames returned.
scopeAppend(a, b) ==
    IF a.panic \/ b.panic THEN scopePanic ELSE scoped(a.columns \o b.columns)

\* determineColumnsInScope, before the loop.
tableColumns(ctx, tableExpr) ==
    IF tableExpr.type = "TableRef" /\ tableExpr.Table.Name \in DOMAIN ctx
    THEN ctx[tableExpr.Table.Name] ELSE <<>>

RECURSIVE determineColumnsInScope(_, _, _)

\* The body of the loop of determineColumnsInScope, for the operator op.
scopeStep(ctx, cols, op) ==
    CASE op.type = "CountOperator" -> scoped(<<"count()">>)
      [] op.type = "ProjectOperator" -> columnNames(op.Cols)
      [] op.type = "ExtendOperator" -> scopeAppend(scoped(cols), columnNames(op.Cols))
      [] op.type = "SummarizeOperator" ->
            scopeAppend(columnNames(op.Cols), columnNames(op.GroupBy))
      [] op.type = "JoinOperator" ->
            IF op.Right = Nil THEN scopePanic
            ELSE scopeAppend(scoped(cols),
                             determineColumnsInScope(ctx, op.Right.Source,
                                                     op.Right.Operators))
      [] OTHER -> scoped(cols)

RECURSIVE scopeLoop(_, _, _, _)
scopeLoop(ctx, acc, operators, j) ==
    IF acc.panic \/ j > Len(operators) THEN acc
    ELSE scopeLoop(ctx, scopeStep(ctx, acc.columns, operators[j]), operators, j + 1)

determineColumnsInScope(ctx, tableExpr, operators) ==
    scopeLoop(ctx, scoped(tableColumns(ctx, tableExpr)), operators, 1)

\* UnknownTabularOperator.Name is declared outside the files at hand: the
\* operator captures the raw tokens after the pipe, and its name is the first
\* of them when that is an identifier.
unknownName(op) ==
    IF Len(op.Tokens) > 0 /\ op.Tokens[1].Kind = "TokenIdentifier"
    THEN [NameSpan |-> op.Tokens[1].Span] ELSE Nil

RECURSIVE suggestTabularExpr(_, _, _)

\* The cases of suggestTabularExpr that complete an expression after the
\* keyword.
afterKeyword(op, span, cols) ==
    IF span.End <= op.Keyword.Start THEN completeOperators(span, FALSE)
    ELSE IF span.End <= op.Keyword.End THEN Nil
    ELSE completeExpression(span, cols)

\* The switch of suggestTabularExpr on the operator found.
suggestOperator(ctx, op, span, cols) ==
    CASE op.type = "UnknownTabularOperator" ->
            IF span.End = op.Pipe.End THEN completeOperators(span, FALSE)
            ELSE IF unknownName(op) # Nil /\ Overlaps(unknownName(op).NameSpan, span)
            THEN completeOperators(span, FALSE)
            ELSE IF Len(op.Tokens) = 0 \/ span.End < op.Tokens[1].Span.Start
            THEN completeOperators(span, FALSE)
            ELSE Nil
      [] op.type \in {"WhereOperator", "SortOperator", "ProjectOperator",
                      "ExtendOperator", "SummarizeOperator"} ->
            afterKeyword(op, span, cols)
      [] op.type = "TakeOperator" ->
            IF span.End <= op.Keyword.Start THEN completeOperators(span, FALSE)
            ELSE IF span.End <= op.Keyword.End THEN Nil
            ELSE completeScope(span)
      [] op.type = "TopOperator" ->
            IF span.End <= op.Keyword.Start THEN completeOperators(span, FALSE)
            ELSE IF ~IsValid(op.By) \/ span.End <= op.By.Start THEN completeScope(span)
            ELSE completeExpression(span, cols)
      [] op.type = "JoinOperator" ->
            IF span.End <= op.Keyword.Start THEN completeOperators(span, FALSE)
            ELSE IF span.End <= op.Keyword.End THEN Nil
            ELSE IF /\ IsValid(op.Lparen)
                    /\ span.End >= op.Lparen.End
                    /\ (~IsValid(op.Rparen) \/ span.End <= op.Rparen.Start)
            THEN suggestTabularExpr(ctx, op.Right, span)
            ELSE IF IsValid(op.On) /\ span.End > op.On.End
            THEN completeExpression(span, cols)
            ELSE Nil
      [] op.type = "AsOperator" ->
            IF span.End <= op.Keyword.Start THEN completeOperators(span, FALSE) ELSE Nil
      [] OTHER -> Nil

\* suggestTabularExpr, once the operator is found: j is its index (from 0)
\* and cols what determineColumnsInScope returned for those before it.
suggestScoped(ctx, e, span, j, cols) ==
    IF cols.panic THEN crashed
    ELSE suggestOperator(ctx, e.Operators[j + 1], span, cols.columns)

\* suggestTabularExpr, after the table name: j is what spanBefore returned.
suggestAt(ctx, e, span, j) ==
    IF j < 0 THEN completeOperators(span, TRUE)
    ELSE suggestScoped(ctx, e, span, j,
                       determineColumnsInScope(ctx, e.Source, SubSeq(e.Operators, 1, j)))

\* Whether suggestTabularExpr takes the cursor to be at the table name.
atTableName(e, span) ==
    Overlaps(span, e.Source.span) \/ span.End < e.Source.span.Start

suggestTabularExpr(ctx, e, span) ==
    IF e = Nil THEN completeTableNames(ctx, span)
    ELSE IF atTableName(e, span) THEN completeTableNames(ctx, span)
    ELSE suggestAt(ctx, e, span, spanBefore(nodeStarts(e.Operators), span.End))


----------------------------------------------------------------------------
(* SuggestCompletions, one operator of the scope at a time *)

\* Queries whose join has operators on its right-hand side, and one with a
\* semicolon after its statement.
NestedQueries ==
    {\* `T | join (Y | count) on k | where x`
     <<"T", " ", "|", " ", "j", "o", "i", "n", " ", "(", "Y", " ", "|", " ", "c",
       "o", "u", "n", "t", ")", " ", "o", "n", " ", "k", " ", "|", " ", "w", "h",
       "e", "r", "e", " ", "x">>,
     \* `T | join (Y | extend z = 1) on k | count`
     <<"T", " ", "|", " ", "j", "o", "i", "n", " ", "(", "Y", " ", "|", " ", "e",
       "x", "t", "e", "n", "d", " ", "z", " ", "=", " ", "1", ")", " ", "o", "n",
       " ", "k", " ", "|", " ", "c", "o", "u", "n", "t">>,
     \* `T | join (Y | summarize count() | where z`
     <<"T", " ", "|", " ", "j", "o", "i", "n", " ", "(", "Y", " ", "|", " ", "s",
       "u", "m", "m", "a", "r", "i", "z", "e", " ", "c", "o", "u", "n", "t", "(",
       ")", " ", "|", " ", "w", "h", "e", "r", "e", " ", "z">>,
     \* `T | join (Y | where z) on k | extend a = 1 | where x`
     <<"T", " ", "|", " ", "j", "o", "i", "n", " ", "(", "Y", " ", "|", " ", "w",
       "h", "e", "r", "e", " ", "z", ")", " ", "o", "n", " ", "k", " ", "|", " ",
       "e", "x", "t", "e", "n", "d", " ", "a", " ", "=", " ", "1", " ", "|", " ",
       "w", "h", "e", "r", "e", " ", "x">>,
     \* `T | where x; `
     <<"T", " ", "|", " ", "w", "h", "e", "r", "e", " ", "x", ";", " ">>}

SuggestInputs == Piped(MaxParseOps) \cup NestedQueries

\* The analysis contexts: the columns of each table known.
AnalysisContexts ==
    {("T" :> <<"x", "y">>) @@ ("Y" :> <<"z">>),
     [t \in {} |-> <<>>]}

\* The cursors tried on a query: its two ends and the ends of its tokens.
Cursors(s) ==
    ({0, Len(s)} \cup {Scan(s)[j].Span.Start : j \in DOMAIN Scan(s)})
        \cup {Scan(s)[j].Span.End : j \in DOMAIN Scan(s)}

\* parser.Parse as SuggestCompletions calls it returns the statements of the
\* source; that Parse is declared outside the files at hand.  The queries
\* hold one statement, the tabular expression Parse built, or none.
statements(t) == IF t.node = Nil THEN <<>> ELSE <<t.node @@ [span |-> t.span]>>

\* SuggestCompletions from its semicolon test on: j is the index of the token
\* at the end of the statement.
semiAfter(toks, pos, j) ==
    /\ j < Len(toks)
    /\ toks[j + 1].Kind = "TokenSemi"
    /\ pos >= toks[j + 1].Span.End

nextTokenIndex(toks, stmt) == BinarySearch(tokenStarts(toks), stmt.span.End, 0, Len(toks))

\* What SuggestCompletions returns before it looks at the operators, or Nil
\* when it goes on to them.
suggestEarly(ctx, toks, stmts, pos, span) ==
    IF spanBefore(nodeStarts(stmts), pos) < 0 THEN completeTableNames(ctx, span)
    ELSE IF semiAfter(toks, pos, nextTokenIndex(toks, stmts[1]))
    THEN completeTableNames(ctx, span)
    ELSE IF atTableName(stmts[1], span) THEN completeTableNames(ctx, span)
    ELSE IF spanBefore(nodeStarts(stmts[1].Operators), span.End) < 0
    THEN completeOperators(span, TRUE)
    ELSE Nil

SuggestInit ==
    /\ noCompile
    /\ noWrite
    /\ noExtra
    /\ noParse
    /\ query \in SuggestInputs
    /\ spos = 0 /\ slast = 0 /\ tokens = <<>> /\ spc = "idle"
    /\ actx \in AnalysisContexts
    /\ cursor \in Cursors(query)
    /\ prefix = nullSpan /\ gop = 0 /\ columns = <<>> /\ gi = 0
    /\ gpc = "start" /\ gret = Nil

\* The call has parsed the source into t and found the prefix span.
started(t, span) ==
    /\ tokens' = Scan(query)
    /\ ast' = t.node
    /\ astSpan' = t.span
    /\ prefix' = span
    /\ gret' = suggestEarly(actx, Scan(query), statements(t), cursor, span)
    /\ gpc' = IF gret' = Nil THEN "scope" ELSE "done"
    /\ gop' = IF gret' = Nil
              THEN spanBefore(nodeStarts(t.node.Operators), span.End) + 1 ELSE 0
    /\ gi' = IF gret' = Nil THEN 1 ELSE 0
    /\ columns' = IF gret' = Nil THEN tableColumns(actx, t.node.Source) ELSE <<>>

\* SuggestCompletions up to the loop of determineColumnsInScope.
SuggestStart ==
    /\ gpc = "start"
    /\ started(parserTabularExpr(newParser(query)),
               completionPrefix(Scan(query), cursor))
    /\ UNCHANGED <<query, spos, slast, spc, ppos, astNodes, finalError, ppc, pret,
                   actx, cursor, cvars, wvars, xvars>>

\* One turn of the loop of determineColumnsInScope gave r.
scopeTurned(r) ==
    /\ gpc' = IF r.panic THEN "panic" ELSE "scope"
    /\ columns' = IF r.panic THEN columns ELSE r.columns
    /\ gi' = IF r.panic THEN gi ELSE gi + 1
    /\ UNCHANGED <<actx, cursor, prefix, gop, gret, svars, pvars, cvars, wvars, xvars>>

\* The operator the loop of determineColumnsInScope is at.
scopeOperator == ast.Operators[gi]

inScope == gpc = "scope" /\ gi < gop

ScopeCount ==
    /\ inScope
    /\ scopeOperator.type = "CountOperator"
    /\ scopeTurned(scopeStep(actx, columns, scopeOperator))

ScopeProject ==
    /\ inScope
    /\ scopeOperator.type = "ProjectOperator"
    /\ scopeTurned(scopeStep(actx, columns, scopeOperator))

ScopeExtend ==
    /\ inScope
    /\ scopeOperator.type = "ExtendOperator"
    /\ scopeTurned(scopeStep(actx, columns, scopeOperator))

ScopeSummarize ==
    /\ inScope
    /\ scopeOperator.type = "SummarizeOperator"
    /\ scopeTurned(scopeStep(actx, columns, scopeOperator))

ScopeJoin ==
    /\ inScope
    /\ scopeOperator.type = "JoinOperator"
    /\ scopeTurned(scopeStep(actx, columns, scopeOperator))

ScopeOther ==
    /\ inScope
    /\ scopeOperator.type \notin {"CountOperator", "ProjectOperator", "ExtendOperator",
                                  "SummarizeOperator", "JoinOperator"}
    /\ scopeTurned(scopeStep(actx, columns, scopeOperator))

\* The switch of suggestTabularExpr, and the return of SuggestCompletions.
SuggestSwitch ==
    /\ gpc = "scope"
    /\ gi = gop
    /\ gret' = suggestOperator(actx, ast.Operators[gop], prefix, columns)
    /\ gpc' = IF gret' = crashed THEN "panic" ELSE "done"
    /\ UNCHANGED <<actx, cursor, prefix, gop, columns, gi, svars, pvars, cvars, wvars, xvars>>

SuggestNext ==
    \/ SuggestStart
    \/ ScopeCount
    \/ ScopeProject
    \/ ScopeExtend
    \/ ScopeSummarize
    \/ ScopeJoin
    \/ ScopeOther
    \/ SuggestSwitch

SuggestSpec == SuggestInit /\ [][SuggestNext]_vars


----------------------------------------------------------------------------
(* Claims about completion *)

\* C19: SuggestCompletions returns a list of completions, possibly empty,
\* without crashing, for every source, every cursor within it and every
\* analysis context, whatever the parser made of the source.
C19_NeverCrashes == gpc # "panic"

\* The names of the columns that have one, in order.
NamesOf(cols) ==
    [j \in DOMAIN SelectSeq(cols, LAMBDA c : c.Name # Nil) |->
        SelectSeq(cols, LAMBDA c : c.Name # Nil)[j].Name.Name]

RECURSIVE ScopeFold(_, _, _, _)
\* The scope after the first n of the operators, as a fold from the left
\* that starts from the columns of the table.
ScopeFold(ctx, tableExpr, operators, n) ==
    IF n = 0
    THEN IF tableExpr.type = "TableRef" /\ tableExpr.Table.Name \in DOMAIN ctx
         THEN ctx[tableExpr.Table.Name] ELSE <<>>
    ELSE CASE operators[n].type = "CountOperator" -> <<"count()">>
           [] operators[n].type = "ProjectOperator" -> NamesOf(operators[n].Cols)
           [] operators[n].type = "ExtendOperator" ->
                 ScopeFold(ctx, tableExpr, operators, n - 1) \o NamesOf(operators[n].Cols)
           [] operators[n].type = "SummarizeOperator" ->
                 NamesOf(operators[n].Cols) \o NamesOf(operators[n].GroupBy)
           [] operators[n].type = "JoinOperator" ->
                 ScopeFold(ctx, tableExpr, operators, n - 1)
                     \o (IF operators[n].Right = Nil THEN <<>>
                         ELSE ScopeFold(ctx, operators[n].Right.Source,
                                        operators[n].Right.Operators,
                                        Len(operators[n].Right.Operators)))
           [] OTHER -> ScopeFold(ctx, tableExpr, operators, n - 1)

\* SuggestCompletions has looked for the columns in scope at an operator, and
\* the search is over.
ScopeEnded == gop > 0 /\ ((gpc = "scope" /\ gi = gop) \/ gpc = "panic" \/ gpc = "done")

\* C20: the columns in scope at an operator are the fold from the left of the
\* operators before it, from the columns of the source table (none when the
\* table is unknown): count gives count(), project its column names, extend
\* the columns before and its column names, summarize its aggregation names
\* and then its group-by names, join the columns before and the scope of its
\* right-hand side, and the other operators leave the scope as it was.
C20_ScopeIsFold ==
    ScopeEnded =>
        /\ gi = gop
        /\ columns = ScopeFold(actx, ast.Source, ast.Operators, gop - 1)

\* The same, of the calls that did not crash: what is left of C20 when the
\* crashes of C19 are set aside.
ScopeIsFoldUnlessCrashed ==
    (ScopeEnded /\ gi = gop) =>
        columns = ScopeFold(actx, ast.Source, ast.Operators, gop - 1)


----------------------------------------------------------------------------
(* Calls of single functions: the arguments are drawn when the function is *)
(* named, and each call appends what it returned.                          *)

MaxCalls == 2

\* The function f is to be called with the arguments a.
calling(f, a) ==
    /\ noCompile
    /\ noWrite
    /\ noFront
    /\ noRoutines
    /\ noCursor
    /\ callee = f
    /\ arguments = a
    /\ results = <<>>

\* One more call returned r.
returned(r) ==
    /\ Len(results) < MaxCalls
    /\ results' = Append(results, r)
    /\ UNCHANGED <<callee, arguments, cvars, wvars, fvars, kvars, tvars>>

MaxOffset == 3

\* The spans, valid or not, with indexes up to MaxOffset.
Spans == {newSpan(a, b) : a \in -1 .. MaxOffset, b \in -1 .. MaxOffset}

OverlapsInit ==
    \E span \in Spans, span2 \in Spans :
        calling("Overlaps", [span |-> span, span2 |-> span2])

OverlapsCall ==
    /\ callee = "Overlaps"
    /\ returned(Overlaps(arguments.span, arguments.span2))

OverlapsNext == OverlapsCall

OverlapsSpec == OverlapsInit /\ [][OverlapsNext]_vars

\* The byte positions of a span.
Positions(span) == span.Start .. (span.End - 1)

\* Whether two valid spans intersect.
Intersect(span, span2) ==
    IF span.Start < span.End /\ span2.Start < span2.End
    THEN Positions(span) \cap Positions(span2) # {}
    ELSE IF span.Start = span.End /\ span2.Start = span2.End
    THEN span = span2
    ELSE IF span.Start = span.End
    THEN span2.Start <= span.Start /\ span.Start <= span2.End
    ELSE span.Start <= span2.Start /\ span2.Start <= span.End

\* C23: Overlaps is symmetric, is false when either span is invalid, and
\* otherwise is true exactly when the spans intersect: two non-empty spans
\* when they share a byte position, a zero-length span and a non-empty one
\* when the start of the first lies in the closed interval of the second, and
\* two zero-length spans when they are equal.
C23_OverlapsIsIntersection ==
    (callee = "Overlaps") =>
        \A n \in DOMAIN results :
            /\ results[n] = Overlaps(arguments.span2, arguments.span)
            /\ results[n] =
                   (/\ IsValid(arguments.span)
                    /\ IsValid(arguments.span2)
                    /\ Intersect(arguments.span, arguments.span2))


MaxSpans == 3

\* The starts of the spans of a sorted list of up to MaxSpans elements.
SortedStarts ==
    {s \in UNION {[1 .. n -> 0 .. MaxOffset] : n \in 0 .. MaxSpans} :
        \A j \in 1 .. (Len(s) - 1) : s[j] <= s[j + 1]}

SpanBeforeInit ==
    \E starts \in SortedStarts, pos \in 0 .. (MaxOffset + 1) :
        calling("spanBefore", [starts |-> starts, pos |-> pos])

SpanBeforeCall ==
    /\ callee = "spanBefore"
    /\ returned(spanBefore(arguments.starts, arguments.pos))

SpanBeforeNext == SpanBeforeCall

SpanBeforeSpec == SpanBeforeInit /\ [][SpanBeforeNext]_vars

\* The index, from 0, of the last of the starts that satisfies Before, -1
\* when none does.
LastIndex(starts, Before(_)) ==
    IF \E j \in DOMAIN starts : Before(starts[j])
    THEN (CHOOSE j \in DOMAIN starts :
              /\ Before(starts[j])
              /\ \A h \in DOMAIN starts : Before(starts[h]) => h <= j) - 1
    ELSE -1

\* C30, as stated: spanBefore returns the index of the last element whose
\* span starts at or before the position, and -1 when no element does.
C30_LastStartingAtOrBefore ==
    (callee = "spanBefore") =>
        \A n \in DOMAIN results :
            results[n] = LastIndex(arguments.starts, LAMBDA a : a <= arguments.pos)

\* C30, amended: spanBefore returns the index of the last element whose span
\* starts strictly before the position, and -1 when no element does.
C30_LastStartingBefore ==
    (callee = "spanBefore") =>
        \A n \in DOMAIN results :
            results[n] = LastIndex(arguments.starts, LAMBDA a : a < arguments.pos)

\* A call returned for a list in which an element starts at the position and
\* another before it.
C30_Witness ==
    /\ callee = "spanBefore"
    /\ Len(results) > 0
    /\ \E j \in DOMAIN arguments.starts : arguments.starts[j] = arguments.pos
    /\ \E j \in DOMAIN arguments.starts : arguments.starts[j] < arguments.pos
    /\ results[1] >= 0


MaxSplitPieces == 3

\* The sources split are made of at most MaxSplitPieces of these pieces: a
\* name, a semicolon, a space, a backslash, and a semicolon inside a string,
\* inside a quoted identifier and inside a comment.
SplitPieces ==
    {<<"a">>, <<";">>, <<" ">>, <<"\\">>, <<"'", ";", "'">>,
     <<Backquote, ";", Backquote>>, <<"/", "/", ";", "\n">>}

RECURSIVE SplitSources(_)
SplitSources(n) ==
    IF n = 0 THEN {<<>>}
    ELSE SplitSources(n - 1) \cup {s \o p : s \in SplitSources(n - 1), p \in SplitPieces}

RECURSIVE splitStatementsLoop(_, _, _, _, _)
\* The loop of SplitStatements over the tokens from the j-th on, and the
\* append after it.
splitStatementsLoop(s, toks, j, parts, start) ==
    IF j > Len(toks) THEN Append(parts, SubSeq(s, start + 1, Len(s)))
    ELSE IF toks[j].Kind = "TokenBackslash"
    THEN splitStatementsLoop(s, toks, j + 1,
                             Append(parts, SubSeq(s, start + 1, toks[j].Span.Start)),
                             toks[j].Span.End)
    ELSE splitStatementsLoop(s, toks, j + 1, parts, start)

SplitStatements(s) == splitStatementsLoop(s, Scan(s), 1, <<>>, 0)

SplitInit == \E s \in SplitSources(MaxSplitPieces) : calling("SplitStatements", s)

SplitCall ==
    /\ callee = "SplitStatements"
    /\ returned(SplitStatements(arguments))

SplitNext == SplitCall

SplitSpec == SplitInit /\ [][SplitNext]_vars

\* The number of semicolon tokens of a source.
Separators(s) == Cardinality({j \in DOMAIN Scan(s) : Scan(s)[j].Kind = "TokenSemi"})

RECURSIVE Rejoined(_, _)
\* The first n of the parts, joined with semicolons.
Rejoined(parts, n) ==
    IF n = 0 THEN <<>>
    ELSE IF n = 1 THEN parts[1]
    ELSE (Rejoined(parts, n - 1) \o <<";">>) \o parts[n]

\* C24: SplitStatements splits the source at every semicolon token and
\* nowhere else: a source with k separating semicolons yields k + 1 parts,
\* and the parts joined with semicolons give back the source.
C24_SplitAtSemicolons ==
    (callee = "SplitStatements") =>
        \A n \in DOMAIN results :
            /\ Len(results[n]) = Separators(arguments) + 1
            /\ Rejoined(results[n], Len(results[n])) = arguments


\* Queries that hold the expressions the operators above do not.
WalkQueries ==
    {\* `T | where (a)`
     <<"T", " ", "|", " ", "w", "h", "e", "r", "e", " ", "(", "a", ")">>,
     \* `T | where f(a, 1)`
     <<"T", " ", "|", " ", "w", "h", "e", "r", "e", " ", "f", "(", "a", ",", " ",
       "1", ")">>,
     \* `T | where a in (1, 2)`
     <<"T", " ", "|", " ", "w", "h", "e", "r", "e", " ", "a", " ", "i", "n", " ",
       "(", "1", ",", " ", "2", ")">>,
     \* `T | where a.b == -c`
     <<"T", " ", "|", " ", "w", "h", "e", "r", "e", " ", "a", ".", "b", " ", "=",
       "=", " ", "-", "c">>,
     \* `T | where not(a) and b[0] > 1`
     <<"T", " ", "|", " ", "w", "h", "e", "r", "e", " ", "n", "o", "t", "(", "a",
       ")", " ", "a", "n", "d", " ", "b", "[", "0", "]", " ", ">", " ", "1">>,
     \* `T | join kind=inner (Y) on a == b`
     <<"T", " ", "|", " ", "j", "o", "i", "n", " ", "k", "i", "n", "d", "=", "i",
       "n", "n", "e", "r", " ", "(", "Y", ")", " ", "o", "n", " ", "a", " ", "=",
       "=", " ", "b">>,
     \* `T | where a + b * c`
     <<"T", " ", "|", " ", "w", "h", "e", "r", "e", " ", "a", " ", "+", " ", "b",
       " ", "*", " ", "c">>}

\* The trees walked: what Parse built for a query.
WalkInputs ==
    {ParseQuery(s).expr : s \in Piped(MaxParseOps) \cup WalkQueries} \ {Nil}

WalkInit == \E n \in WalkInputs : calling("Walk", n)

WalkCall ==
    /\ callee = "Walk"
    /\ returned(Walk(arguments))

WalkNext == WalkCall

WalkSpec == WalkInit /\ [][WalkNext]_vars

\* The nodes among xs: a nil field holds no node.
Present(xs) == SelectSeq(xs, LAMBDA x : x # Nil)

\* The children of a node, in the order of the source.
Children(n) ==
    CASE n.type = "QualifiedIdent" -> n.Parts
      [] n.type = "TabularExpr" -> <<n.Source>> \o n.Operators
      [] n.type = "TableRef" -> Present(<<n.Table>>)
      [] n.type = "WhereOperator" -> Present(<<n.Predicate>>)
      [] n.type = "SortOperator" -> n.Terms
      [] n.type = "SortTerm" -> Present(<<n.X>>)
      [] n.type = "TakeOperator" -> Present(<<n.RowCount>>)
      [] n.type = "TopOperator" -> Present(<<n.RowCount, n.Col>>)
      [] n.type = "ProjectOperator" -> n.Cols
      [] n.type \in {"ProjectColumn", "ExtendColumn", "SummarizeColumn"} ->
            Present(<<n.Name, n.X>>)
      [] n.type = "ExtendOperator" -> n.Cols
      [] n.type = "SummarizeOperator" -> n.Cols \o n.GroupBy
      [] n.type = "JoinOperator" -> Present(<<n.Flavor, n.Right>>) \o n.Conditions
      [] n.type = "AsOperator" -> Present(<<n.Name>>)
      [] n.type = "BinaryExpr" -> Present(<<n.X, n.Y>>)
      [] n.type \in {"UnaryExpr", "ParenExpr"} -> Present(<<n.X>>)
      [] n.type = "InExpr" -> Present(<<n.X>>) \o n.Vals
      [] n.type = "CallExpr" -> Present(<<n.Func>>) \o n.Args
      [] n.type = "IndexExpr" -> Present(<<n.X, n.Index>>)
      [] OTHER -> <<>>

RECURSIVE Preorder(_)
RECURSIVE PreorderAll(_, _)
\* Every node reachable from n, each once, a parent before its children and
\* the children in the order of the source.
Preorder(n) == <<n>> \o PreorderAll(Children(n), 1)

PreorderAll(xs, j) ==
    IF j > Len(xs) THEN <<>> ELSE Preorder(xs[j]) \o PreorderAll(xs, j + 1)

\* C25: Walk visits every node reachable from its argument exactly once,
\* each parent before its children and siblings in the order of the source,
\* for every node the parser can produce, and never fails on a node type.
C25_WalkVisitsEveryNode ==
    (callee = "Walk") =>
        \A n \in DOMAIN results :
            /\ ~results[n].panic
            /\ results[n].visited = Preorder(arguments)


----------------------------------------------------------------------------
(* The cursor of the parser during one call of summarizeColumn: the moves  *)
(* of next and prev, and the assignment of the saved position.             *)

MaxColumnTokens == 3

\* The columns parsed are made of at most MaxColumnTokens of these tokens.
ColumnPieces == {<<"a">>, <<"=">>, <<"1">>, <<"(">>, <<")">>, <<",">>}

RECURSIVE ColumnTexts(_)
ColumnTexts(n) ==
    IF n = 0 THEN {<<>>}
    ELSE ColumnTexts(n - 1)
             \cup {(s \o <<" ">>) \o p : s \in ColumnTexts(n - 1), p \in ColumnPieces}

\* The cursor is at p: a read of the end of input is remembered.
moved(p, sawEnd) ==
    /\ ppos' = p.pos
    /\ eof' = (eof \/ sawEnd)

CursorInit ==
    /\ noCompile
    /\ noWrite
    /\ noSuggest
    /\ noCall
    /\ noRoutines
    /\ query \in ColumnTexts(MaxColumnTokens)
    /\ tokens = Scan(query)
    /\ spos = 0 /\ slast = 0 /\ spc = "idle"
    /\ ppos = 0 /\ ast = Nil /\ astSpan = nullSpan /\ astNodes = <<>>
    /\ finalError = Nil /\ ppc = "idle" /\ pret = Nil
    /\ restorePos = -1 /\ eof = FALSE /\ tpc = "enter"

cursorFrame ==
    UNCHANGED <<svars, ast, astSpan, astNodes, finalError, ppc, pret, gvars, cvars,
                wvars, uvars, kvars>>

\* summarizeColumn up to the return of p.ident().
SummarizeColumnIdent ==
    /\ tpc = "enter"
    /\ restorePos' = ppos
    /\ moved(ident(parserNow).p, ~next(parserNow).ok)
    /\ tpc' = IF ident(parserNow).err = Nil THEN "assign" ELSE "expr"
    /\ cursorFrame

\* summarizeColumn: the p.next() that looks for the `=`.
SummarizeColumnAssign ==
    /\ tpc = "assign"
    /\ moved(next(parserNow).p, ~next(parserNow).ok)
    /\ tpc' = IF next(parserNow).tok.Kind = "TokenAssign" THEN "expr" ELSE "restore"
    /\ UNCHANGED restorePos
    /\ cursorFrame

\* summarizeColumn: p.pos = restorePos.
SummarizeColumnRestore ==
    /\ tpc = "restore"
    /\ ppos' = restorePos
    /\ tpc' = "expr"
    /\ UNCHANGED <<restorePos, eof>>
    /\ cursorFrame

\* summarizeColumn: the call of p.expr(), whose first move is a p.next().
SummarizeColumnExpr ==
    /\ tpc = "expr"
    /\ moved(expr(parserNow).p,
             ~next(parserNow).ok \/ expr(parserNow).p.pos > Len(tokens))
    /\ tpc' = "done"
    /\ UNCHANGED restorePos
    /\ cursorFrame

CursorNext ==
    \/ SummarizeColumnIdent
    \/ SummarizeColumnAssign
    \/ SummarizeColumnRestore
    \/ SummarizeColumnExpr

CursorSpec == CursorInit /\ [][CursorNext]_vars

\* C27: once next has returned the end of input, the cursor stays pinned past
\* the end for the rest of the parse, whatever productions run afterwards:
\* prev does nothing and every later next returns the end of input again.
C27_CursorPinnedAfterEnd == eof => ppos = Len(tokens) + 1


----------------------------------------------------------------------------
(* The productions of the expression grammar, each called on its own *)

MaxProductionTokens == 3

\* The productions are called on at most MaxProductionTokens of these tokens.
ProductionPieces ==
    {<<"a">>, <<".">>, <<"1">>, <<"(">>, <<")">>, <<"[">>, <<"]">>, <<"-">>, <<"+">>}

RECURSIVE ProductionTexts(_)
ProductionTexts(n) ==
    IF n = 0 THEN {<<>>}
    ELSE ProductionTexts(n - 1)
             \cup {s \o p : s \in ProductionTexts(n - 1), p \in ProductionPieces}

Productions ==
    {"ident", "qualifiedIdent", "innerPrimaryExpr", "primaryExpr", "unaryExpr", "expr"}

ProductionInit ==
    \E f \in Productions, s \in ProductionTexts(MaxProductionTokens) :
        calling(f, newParser(s))

\* What a production returned: its node, its error and the parser it left.
produced(r) == returned([node |-> r.node, err |-> r.err, p |-> r.p])

ProduceIdent == callee = "ident" /\ produced(ident(arguments))

ProduceQualifiedIdent == callee = "qualifiedIdent" /\ produced(qualifiedIdent(arguments))

ProduceInnerPrimaryExpr ==
    callee = "innerPrimaryExpr" /\ produced(innerPrimaryExpr(arguments))

ProducePrimaryExpr == callee = "primaryExpr" /\ produced(primaryExpr(arguments))

ProduceUnaryExpr == callee = "unaryExpr" /\ produced(unaryExpr(arguments))

ProduceExpr == callee = "expr" /\ produced(expr(arguments))

ProductionNext ==
    \/ ProduceIdent
    \/ ProduceQualifiedIdent
    \/ ProduceInnerPrimaryExpr
    \/ ProducePrimaryExpr
    \/ ProduceUnaryExpr
    \/ ProduceExpr

ProductionSpec == ProductionInit /\ [][ProductionNext]_vars

\* C28: a production that returns an error marked not-found has consumed
\* nothing, the next token read after it being the one that would have been
\* read on entry, and a production that returns a node without an error has
\* consumed at least one token.
C28_NotFoundConsumesNothing ==
    (callee \in Productions) =>
        \A n \in DOMAIN results :
            /\ isNotFound(results[n].err) =>
                   next(results[n].p).tok = next(arguments).tok
            /\ (results[n].node # Nil /\ results[n].err = Nil) =>
                   results[n].p.pos > arguments.pos


----------------------------------------------------------------------------
(* initKnownFunctions called from several goroutines.  knownFunctions.init *)
(* is a sync.Once: Do returns at once when its done flag is set, and       *)
(* otherwise takes the mutex of the Once, runs the function if the flag is *)
(* still unset, sets the flag and releases the mutex.                      *)

MaxRoutines == 3

MaxLookups == 2

Routines == 1 .. MaxRoutines

\* Do has read the done flag without the mutex: whether it goes on to lock.
mustLock(done) == ~done

\* Do has read the done flag under the mutex: whether it runs the function.
mustBuildUnchecked(done) == TRUE

mustBuild(done) == ~done

RegistryInit ==
    /\ noCompile
    /\ noWrite
    /\ noFront
    /\ noCall
    /\ noCursor
    /\ onceDone = FALSE
    /\ onceLock = 0
    /\ registry = Nil
    /\ builds = 0
    /\ routines = [r \in Routines |-> [pc |-> "call", calls |-> 0, table |-> Nil]]

\* The goroutine r is at the step at.
at(r, step) == routines[r].pc = step

\* The goroutine r goes to the step to.
goes(r, to) == routines' = [routines EXCEPT ![r].pc = to]

registryFrame == UNCHANGED <<cvars, wvars, fvars, uvars, tvars>>

\* writeExpression or writeExpressionMaybeParen calls initKnownFunctions, and
\* Do reads the done flag.
OnceDo(r) ==
    /\ at(r, "call")
    /\ goes(r, IF mustLock(onceDone) THEN "lock" ELSE "return")
    /\ UNCHANGED <<onceDone, onceLock, registry, builds>>
    /\ registryFrame

OnceLock(r) ==
    /\ at(r, "lock")
    /\ onceLock = 0
    /\ onceLock' = r
    /\ goes(r, IF mustBuild(onceDone) THEN "build" ELSE "unlock")
    /\ UNCHANGED <<onceDone, registry, builds>>
    /\ registryFrame

\* The function given to Do assigns the table.
BuildTable(r) ==
    /\ at(r, "build")
    /\ registry' = knownFunctions
    /\ builds' = builds + 1
    /\ goes(r, "store")
    /\ UNCHANGED <<onceDone, onceLock>>
    /\ registryFrame

OnceStore(r) ==
    /\ at(r, "store")
    /\ onceDone' = TRUE
    /\ goes(r, "unlock")
    /\ UNCHANGED <<onceLock, registry, builds>>
    /\ registryFrame

OnceUnlock(r) ==
    /\ at(r, "unlock")
    /\ onceLock' = 0
    /\ goes(r, "return")
    /\ UNCHANGED <<onceDone, registry, builds>>
    /\ registryFrame

\* initKnownFunctions returns knownFunctions.m, and the caller looks the
\* function up in it; the goroutine then writes its next call expression.
Lookup(r) ==
    /\ at(r, "return")
    /\ routines' = [routines EXCEPT
                        ![r].table = registry,
                        ![r].calls = @ + 1,
                        ![r].pc = IF routines[r].calls + 1 < MaxLookups
                                  THEN "call" ELSE "done"]
    /\ UNCHANGED <<onceDone, onceLock, registry, builds>>
    /\ registryFrame

RegistryNext ==
    \E r \in Routines :
        \/ OnceDo(r)
        \/ OnceLock(r)
        \/ BuildTable(r)
        \/ OnceStore(r)
        \/ OnceUnlock(r)
        \/ Lookup(r)

RegistrySpec == RegistryInit /\ [][RegistryNext]_vars

\* C22: under any interleaving of the calls, the table of known functions is
\* built exactly once, every lookup observes the table fully built, and the
\* table is never written after it was built.
C22_RegistryBuiltOnce ==
    (routines # <<>>) =>
        /\ builds <= 1
        /\ (registry # Nil) => (builds = 1 /\ registry = knownFunctions)
        /\ \A r \in DOMAIN routines :
               routines[r].calls > 0 =>
                   (builds = 1 /\ routines[r].table = knownFunctions)

\* Every goroutine has looked a function up, the others after waiting for
\* the mutex or finding the flag set by the one that built the table.
C22_Witness ==
    /\ routines # <<>>
    /\ \A r \in DOMAIN routines : routines[r].calls > 0
    /\ builds = 1


----------------------------------------------------------------------------
(* completeScope: the names bound by let statements, as completions.  The *)
(* scope is a Go map, and the order in which range visits its keys is not *)
(* specified: each call takes one of the orders.                          *)

\* The names bound by let statements before the cursor.
LetNames == {<<"f", "o", "o">>, <<"F", "a", "r">>, <<"b", "a", "r">>}

\* The texts under the prefix span.
PrefixTexts == {<<>>, <<"f">>, <<"F", "A">>, <<"b">>}

\* The letter a letter is folded to.
folded(c) ==
    CASE c = "F" -> "f" [] c = "A" -> "a" [] c = "B" -> "b" [] OTHER -> c

hasFoldPrefix(s, p) ==
    /\ Len(s) >= Len(p)
    /\ \A j \in DOMAIN p : folded(s[j]) = folded(p[j])

\* The orders in which range may visit the keys of a map.
RangeOrders(keys) ==
    {o \in [1 .. Cardinality(keys) -> keys] :
        \A a \in DOMAIN o, b \in DOMAIN o : a # b => o[a] # o[b]}

\* completeScope, when range visits the keys of scope in the order given.
completeScopeIn(prefixText, order) ==
    SelectSeq(order, LAMBDA name : hasFoldPrefix(name, prefixText))

ScopeInit ==
    \E scope \in SUBSET LetNames, p \in PrefixTexts :
        calling("completeScope", [scope |-> scope, prefixText |-> p])

CompleteScope ==
    /\ callee = "completeScope"
    /\ \E order \in RangeOrders(arguments.scope) :
           returned(completeScopeIn(arguments.prefixText, order))

ScopeNext == CompleteScope

ScopeSpec == ScopeInit /\ [][ScopeNext]_vars

\* C21: two calls with equal inputs return equal results, and the completions
\* of suggest come back in the same order.
C21_EqualInputsEqualResults ==
    (callee = "completeScope") =>
        \A n \in DOMAIN results, m \in DOMAIN results : results[n] = results[m]


----------------------------------------------------------------------------
(* Compile of a source text *)

\* The most operators in a compiled source text.
MaxCompileOps == 1

\* Source texts that end with a token no production of the grammar accepts.
UnacceptedTexts ==
{\* `T | extend a 'x`
     <<"T", " ", "|", " ", "e", "x", "t", "e", "n", "d", " ", "a", " ", "'", "x">>,
     \* `T | extend a $`
     <<"T", " ", "|", " ", "e", "x", "t", "e", "n", "d", " ", "a", " ", "$">>,
     \* `T | where a 'x`
     <<"T", " ", "|", " ", "w", "h", "e", "r", "e", " ", "a", " ", "'", "x">>,
     \* `T | count 'x`
     <<"T", " ", "|", " ", "c", "o", "u", "n", "t", " ", "'", "x">>,
     \* `T | project a 'x`
     <<"T", " ", "|", " ", "p", "r", "o", "j", "e", "c", "t", " ", "a", " ", "'", "x">>,
     \* `T 'x`
     <<"T", " ", "'", "x">>}

CompileTexts == Piped(MaxCompileOps) \cup UnacceptedTexts

\* Compile of a source text, after Parse returned the expression e and the
\* error err.
compileText(options, e, err) ==
    IF err # Nil
    THEN Err("parse pipeline query language: " \o err.msg)
    ELSE compileSubqueries(options, splitQueries(<<>>, e))

CompileTextInit ==
    /\ noCompile
    /\ noWrite
    /\ noExtra
    /\ noSuggest
    /\ query \in CompileTexts
    /\ spos = 0 /\ slast = 0 /\ tokens = <<>> /\ spc = "idle"
    /\ ppos = 0 /\ ast = Nil /\ astSpan = nullSpan /\ astNodes = <<>>
    /\ finalError = Nil /\ ppc = "start" /\ pret = Nil

\* Compile, once Parse has returned: the error of Parse, or the SQL of the
\* subqueries of the expression.
CompileTextReturn ==
    /\ ppc = "done"
    /\ callee = ""
    /\ callee' = "Compile"
    /\ arguments' = query
    /\ results' = <<compileText(Nil, ast, pret)>>
    /\ UNCHANGED <<svars, pvars, cvars, wvars, kvars, tvars, gvars>>

CompileTextNext ==
    \/ ParseSource
    \/ ParseOperator
    \/ ParseReturn
    \/ CompileTextReturn

CompileTextSpec == CompileTextInit /\ [][CompileTextNext]_vars

\* Whether Scan yielded an error token for the source text.
hasErrorToken == \E j \in DOMAIN tokens : tokens[j].Kind = "TokenError"

\* Whether every token of the source text lies in the span of the tabular
\* expression that Parse returned.
everyTokenConsumed ==
    \A j \in DOMAIN tokens :
        /\ astSpan.Start <= tokens[j].Span.Start
        /\ tokens[j].Span.End <= astSpan.End

\* C26: Compile returns SQL only if every token of the source was consumed
\* by a grammar production: when Scan yields an error token, or a token lies
\* outside what the grammar accepted, Compile returns an error and an empty
\* SQL string.
C26_SqlOnlyIfEveryTokenConsumed ==
    (callee = "Compile" /\ (hasErrorToken \/ ~everyTokenConsumed))
        => results[1].st = "error" /\ results[1].out = ""


----------------------------------------------------------------------------
(* Claims about the lowering as a whole *)

\* An operator as the subqueries give it back: a top as its sort and its take.
readAs(op) ==
    IF op.type = "TopOperator"
    THEN <<SortOperator(<<op.Col>>), TakeOperator(op.RowCount)>>
    ELSE <<op>>

\* The first n operators of a sequence, each as the subqueries give it back.
RECURSIVE OperatorsRead(_, _)
OperatorsRead(operators, n) ==
    IF n = 0 THEN <<>>
    ELSE OperatorsRead(operators, n - 1) \o readAs(operators[n])

\* What a subquery holds in the place x: nothing when it is nil.
held(x) == IF x = Nil THEN <<>> ELSE <<x>>

\* The first n subqueries read in order: of each its primary operator, then
\* its attached sort, then its attached take.
RECURSIVE SubqueriesRead(_, _)
SubqueriesRead(subqueries, n) ==
    IF n = 0 THEN <<>>
    ELSE SubqueriesRead(subqueries, n - 1)
             \o held(subqueries[n].op)
             \o held(subqueries[n].sort)
             \o held(subqueries[n].take)

JoinFree(e) == \A n \in DOMAIN e.Operators : e.Operators[n].type # "JoinOperator"

\* C29: lowering neither drops nor reorders operators: for a join-free
\* operator sequence, the subqueries built from its first i operators, read
\* in order and each as its primary operator, then its sort, then its take,
\* give back those i operators (a top as a sort followed by a take), and
\* every subquery after the first reads FROM the name of the one before it.
C29_LoweringKeepsOperators ==
    (parsedExpr # Nil /\ JoinFree(parsedExpr))
        => /\ SubqueriesRead(dst, Len(dst)) = OperatorsRead(parsedExpr.Operators, i)
           /\ \A n \in 2 .. Len(dst) :
                  dst[n].sourceSQL = quoteIdentifier(dst[n - 1].name)

\* Compile has returned the SQL of a join-free sequence with a top, lowered
\* to two subqueries, the first of which holds an operator, a sort and a take.
C29_Witness ==
    /\ pc = "done"
    /\ ret # Nil
    /\ ret.st = "ok"
    /\ parsedExpr # Nil
    /\ JoinFree(parsedExpr)
    /\ \E n \in DOMAIN parsedExpr.Operators : parsedExpr.Operators[n].type = "TopOperator"
    /\ Len(dst) = 2
    /\ dst[1].op # Nil /\ dst[1].sort # Nil /\ dst[1].take # Nil

====
